---- MODULE Spec2Model ----
(***************************************************************************)
(* Ledger engine of the pallet tracker (src/pallet/services/               *)
(* ledger_service.py, src/pallet/models.py).  The committed database is    *)
(* the tables locations, balances, movements, audit_logs and reports; the  *)
(* service's SQLAlchemy session (autoflush off, src/pallet/database.py:47) *)
(* adds the list of pending objects that were add()ed but not yet flushed. *)
(* Every service method is one action; a method is computed by an operator *)
(* from the session before the call to the session after it and the value  *)
(* the call returns, which goes to the caller and is no part of the state. *)
(***************************************************************************)
EXTENDS Integers, Sequences, FiniteSets, Bags, TLC

VARIABLES locations, balances, movements, audit_logs, reports, pending, calls,
          future

vars == <<locations, balances, movements, audit_logs, reports, pending, calls,
          future>>

(***************************************************************************)
(* Bounds of the model.                                                    *)
(***************************************************************************)
MaxMovements == 2
MaxLogs == 2
MaxQty == 2
MaxReports == 1

(***************************************************************************)
(* Strings are sequences of one-character strings, so that str.upper() and *)
(* len() are computed and not assumed.                                     *)
(***************************************************************************)
LowerLetters == <<"a","b","c","d","e","f","g","h","i","j","k","l","m",
                  "n","o","p","q","r","s","t","u","v","w","x","y","z">>
UpperLetters == <<"A","B","C","D","E","F","G","H","I","J","K","L","M",
                  "N","O","P","Q","R","S","T","U","V","W","X","Y","Z">>

LowerSet == {LowerLetters[i] : i \in DOMAIN LowerLetters}

\* the upper-case letter of each lower-case letter
UpperOf ==
    [c \in LowerSet |->
        UpperLetters[CHOOSE i \in DOMAIN LowerLetters : LowerLetters[i] = c]]

UpperChar(c) == IF c \in LowerSet THEN UpperOf[c] ELSE c

Upper(s) == [i \in DOMAIN s |-> UpperChar(s[i])]

SYSTEM == <<"S","Y","S","T","E","M">>

\* nullable columns: None is the empty tuple, a value v is <<v>>
None == <<>>
Some(v) == <<v>>

\* Location.validate_code: at least 3 characters, stored upper-cased
MinCodeLen == 3
\* a faulty variant of the validator: every code passes
AnyCode(code) == TRUE

ValidCode(code) == Len(code) >= MinCodeLen

\* create_location's default max_capacity and the SYSTEM account's capacity
DefaultCapacity == 1000
SystemCapacity == 999999

\* InventoryBalance.update_available_quantity
Max(a, b) == IF a >= b THEN a ELSE b
\* a faulty variant of the recomputation: no floor at zero
AvailableUnclamped(b) ==
    [b EXCEPT !.quantity_available = b.quantity - b.quantity_allocated]

update_available_quantity(b) ==
    [b EXCEPT !.quantity_available = Max(0, b.quantity - b.quantity_allocated)]

(***************************************************************************)
(* Rows.                                                                   *)
(***************************************************************************)
NewLocation(code, cap, status) ==
    [code |-> code, max_capacity |-> cap, current_stock |-> 0,
     operational_status |-> status]

\* a faulty variant of the initial balance: one pallet in stock
BalanceOfOne(code) ==
    [location_code |-> code, quantity |-> 1, quantity_allocated |-> 0,
     quantity_available |-> 1]

NewBalance(code) ==
    [location_code |-> code, quantity |-> 0, quantity_allocated |-> 0,
     quantity_available |-> 0]

\* a faulty variant of the movement row: twice the quantity that is moved
MovementDoubled(id, from, to, q) ==
    [id |-> id, from_location_code |-> from, to_location_code |-> to,
     quantity |-> 2 * q, status |-> "completed"]

NewMovement(id, from, to, q) ==
    [id |-> id, from_location_code |-> from, to_location_code |-> to,
     quantity |-> q, status |-> "completed"]

\* a faulty variant of the audit row: the debit side is not reconciled
MovementAuditStale(mid, from, to, q, sb, sa, db, da) ==
    [movement_id |-> Some(mid), debit_location_code |-> from,
     credit_location_code |-> to, quantity |-> q,
     debit_balance_before |-> Some(sb), debit_balance_after |-> Some(sb),
     credit_balance_before |-> Some(db), credit_balance_after |-> Some(da),
     action |-> "MOVEMENT", record_id |-> None]

MovementAudit(mid, from, to, q, sb, sa, db, da) ==
    [movement_id |-> Some(mid), debit_location_code |-> from,
     credit_location_code |-> to, quantity |-> q,
     debit_balance_before |-> Some(sb), debit_balance_after |-> Some(sa),
     credit_balance_before |-> Some(db), credit_balance_after |-> Some(da),
     action |-> "MOVEMENT", record_id |-> None]

\* _log_audit: an audit row that references no movement, add()ed to the session
LogAudit(action, record_id) ==
    [movement_id |-> None, debit_location_code |-> None,
     credit_location_code |-> None, quantity |-> 0,
     debit_balance_before |-> None, debit_balance_after |-> None,
     credit_balance_before |-> None, credit_balance_after |-> None,
     action |-> action, record_id |-> record_id]

(***************************************************************************)
(* The session.  A session state st holds the tables as the session's      *)
(* transaction sees them, the pending (add()ed, unflushed) objects,        *)
(* st.db, the tables as last committed, and st.nested, where the           *)
(* "with begin_nested()" block the call runs in stands: "none" outside     *)
(* such a block, "active" while its SAVEPOINT transaction is open (then    *)
(* st.savepoint holds the tables as they were at the SAVEPOINT), "closed"  *)
(* once a commit or rollback inside the block has ended that transaction.  *)
(* The installed SQLAlchemy decides what commit() and rollback() end: the  *)
(* whole transaction (future, the 2.0 Session) or only the innermost one   *)
(* (the 1.4 Session that sessionmaker(...) of database.py:47 builds); the  *)
(* variable future is that choice.                                         *)
(***************************************************************************)
Tables(st) ==
    [locations |-> st.locations, balances |-> st.balances,
     movements |-> st.movements, audit_logs |-> st.audit_logs,
     reports |-> st.reports]

Session(tables, pend, db, nested) ==
    [locations |-> tables.locations, balances |-> tables.balances,
     movements |-> tables.movements, audit_logs |-> tables.audit_logs,
     reports |-> tables.reports, pending |-> pend, db |-> db,
     nested |-> nested, savepoint |-> None]

\* the session with other tables in its transaction
WithTables(st, tables) ==
    [st EXCEPT !.locations = tables.locations, !.balances = tables.balances,
               !.movements = tables.movements, !.audit_logs = tables.audit_logs,
               !.reports = tables.reports]

\* a block whose SAVEPOINT transaction was open has had it ended
Ended(nested) == IF nested = "active" THEN "closed" ELSE nested

\* commit() and rollback() act on the SAVEPOINT transaction alone
InnermostOnly(st) == st.nested = "active" /\ ~future

PendingAudit(row) == [table |-> "audit", row |-> row]
PendingBalance(row) == [table |-> "balance", row |-> row]

db_add(st, obj) == [st EXCEPT !.pending = Append(@, obj)]

\* the INSERT of one pending balance is accepted: its location exists
\* (foreign key) and no balance row has its location code (unique index)
BalanceInsertOk(bals, locs, row) ==
    /\ row.location_code \in DOMAIN locs
    /\ row.location_code \notin DOMAIN bals

RECURSIVE FlushPending(_, _)
\* INSERT the pending objects, each table's in the order they were added;
\* <<ok, tables>>
FlushPending(tables, pend) ==
    IF pend = <<>> THEN <<TRUE, tables>>
    ELSE LET obj == Head(pend) IN
         IF obj.table = "audit"
         THEN FlushPending([tables EXCEPT !.audit_logs = @ (+) SetToBag({obj.row})],
                           Tail(pend))
         ELSE IF BalanceInsertOk(tables.balances, tables.locations, obj.row)
              THEN FlushPending(
                     [tables EXCEPT !.balances =
                         (obj.row.location_code :> obj.row) @@ @],
                     Tail(pend))
              ELSE <<FALSE, tables>>

FlushOk(st) == FlushPending(Tables(st), st.pending)[1]

\* Session.flush(), when the INSERTs are accepted
db_flush(st) ==
    [WithTables(st, FlushPending(Tables(st), st.pending)[2]) EXCEPT
        !.pending = <<>>]

\* Session.commit(): flush, then release the SAVEPOINT, or make the
\* transaction's tables the committed ones
db_commit(st) ==
    IF InnermostOnly(st)
    THEN [db_flush(st) EXCEPT !.nested = "closed", !.savepoint = None]
    ELSE [db_flush(st) EXCEPT !.db = FlushPending(Tables(st), st.pending)[2],
                              !.nested = Ended(@), !.savepoint = None]

\* a faulty variant of rollback: what was flushed stays, pending objects go
KeepFlushed(st) == Session(Tables(st), <<>>, Tables(st), Ended(st.nested))

\* Session.rollback(): back to the SAVEPOINT, or to the committed tables;
\* pending objects are expunged
db_rollback(st) ==
    IF InnermostOnly(st)
    THEN [WithTables(st, st.savepoint[1]) EXCEPT
             !.pending = <<>>, !.nested = "closed", !.savepoint = None]
    ELSE Session(st.db, <<>>, st.db, Ended(st.nested))

\* the element of a one-element set; { f(x) : x \in {e} } computes e once,
\* however often f uses x
TheOne(S) == CHOOSE x \in S : TRUE

\* the result of a call: the session after it and what it returned
Result(st, ok, kind, avail) ==
    [st |-> st, ok |-> ok, kind |-> kind, avail |-> avail]

(***************************************************************************)
(* record_movement.  fault names the storage operation of this call that   *)
(* the database fails, if any: the commit of the SYSTEM auto-provisioning, *)
(* the flush of the movement row, or the final commit.                     *)
(***************************************************************************)
Faults == {"none", "provision", "flush", "commit"}

\* a faulty variant of the auto-fix: the location without its balance row
ProvisionLocationOnly(st, code, fault) ==
    IF Upper(code) = SYSTEM /\ SYSTEM \notin DOMAIN st.locations
    THEN LET added == [st EXCEPT !.locations =
                         (SYSTEM :> NewLocation(SYSTEM, SystemCapacity, "active")) @@ @]
         IN IF fault = "provision" \/ ~FlushOk(added)
            THEN db_rollback(st)
            ELSE db_commit(added)
    ELSE st

\* a faulty variant of the creation: rows that exist are written anew
ResetSystem(st, fault) ==
    IF fault = "provision"
    THEN db_rollback(st)
    ELSE db_commit([st EXCEPT
            !.locations = (SYSTEM :> NewLocation(SYSTEM, SystemCapacity, "active")) @@ @,
            !.balances = (SYSTEM :> NewBalance(SYSTEM)) @@ @])

\* lines 183-195: the two rows are added and committed; the INSERT of a
\* location whose code is taken fails on the primary key, and the except
\* clause rolls back
CreateSystem(st, fault) ==
    LET added == db_add(
            [st EXCEPT !.locations =
                (SYSTEM :> NewLocation(SYSTEM, SystemCapacity, "active")) @@ @],
            PendingBalance(NewBalance(SYSTEM)))
    IN IF fault = "provision" \/ SYSTEM \in DOMAIN st.locations \/ ~FlushOk(added)
       THEN db_rollback(st)
       ELSE db_commit(added)

\* lines 178-196: one pass of the auto-fix loop for one of the two codes
ProvisionSystem(st, code, fault) ==
    IF Upper(code) = SYSTEM /\ SYSTEM \notin DOMAIN st.locations
    THEN CreateSystem(st, fault)
    ELSE st

\* get_location_balance: the balance row of the upper-cased code, if any
HasBalance(st, code) == Upper(code) \in DOMAIN st.balances
get_location_balance(st, code) == st.balances[Upper(code)]

\* faulty variants of the stock check: none at all, and one that does not
\* exempt the SYSTEM account
NoStockCheck(from_location_code, source_quantity, quantity) == FALSE
StockCheckForAll(from_location_code, source_quantity, quantity) ==
    source_quantity < quantity

\* line 216: the stock check
InsufficientStock(from_location_code, source_quantity, quantity) ==
    Upper(from_location_code) # SYSTEM /\ source_quantity < quantity

\* faulty variants of the two balance updates: a debit that takes nothing
\* and a credit that gives one pallet too many
DebitNothing(b, quantity) == update_available_quantity(b)
CreditOneMore(b, quantity) ==
    update_available_quantity([b EXCEPT !.quantity = @ + quantity + 1])

\* lines 239-240 and 243-244
Debit(b, quantity) ==
    update_available_quantity([b EXCEPT !.quantity = @ - quantity])
Credit(b, quantity) ==
    update_available_quantity([b EXCEPT !.quantity = @ + quantity])

\* lines 246-250: the cache on the location row, when the row exists
MirrorStock(locs, code, quantity) ==
    IF code \in DOMAIN locs
    THEN [locs EXCEPT ![code].current_stock = quantity]
    ELSE locs

\* what a PalletMovement row must satisfy: validate_quantity and the two
\* CHECK constraints of the table
MovementAccepted(from_location_code, to_location_code, quantity) ==
    quantity > 0 /\ from_location_code # to_location_code

\* lines 219-273: the atomic step, st being the session after validation
ApplyMovement(st, from_location_code, to_location_code, quantity, fault) ==
    LET src == Upper(from_location_code)
        dst == Upper(to_location_code)
    IN IF fault = "flush" \/ ~FlushOk(st) \/ src \notin DOMAIN st.locations
                          \/ dst \notin DOMAIN st.locations
                          \/ ~MovementAccepted(src, dst, quantity)
       THEN Result(db_rollback(st), FALSE, "error", 0)
       ELSE
       LET flushed == db_flush(st)
           movement == NewMovement(Len(flushed.movements) + 1, src, dst, quantity)
           source_before == flushed.balances[src].quantity
           dest_before == flushed.balances[dst].quantity
           source_after == Debit(flushed.balances[src], quantity)
           dest_after == Credit(flushed.balances[dst], quantity)
           bals == [flushed.balances EXCEPT ![src] = source_after,
                                            ![dst] = dest_after]
           locs == MirrorStock(MirrorStock(flushed.locations, src,
                                           source_after.quantity),
                               dst, dest_after.quantity)
           audit_log == MovementAudit(movement.id, src, dst, quantity,
                                      source_before, source_after.quantity,
                                      dest_before, dest_after.quantity)
           done == db_add([flushed EXCEPT
                             !.movements = Append(@, movement),
                             !.balances = bals,
                             !.locations = locs],
                          PendingAudit(audit_log))
       IN IF fault = "commit"
          THEN Result(db_rollback(done), FALSE, "error", 0)
          ELSE Result(db_commit(done), TRUE, "recorded", 0)

\* a faulty variant of the lookup: a missing source counts as an empty one
SourceOrEmpty(st, from_location_code) ==
    IF HasBalance(st, from_location_code)
    THEN Some(get_location_balance(st, from_location_code))
    ELSE Some(NewBalance(Upper(from_location_code)))

\* line 199: the balance row of the source, None if there is none
source_balance(st, from_location_code) ==
    IF HasBalance(st, from_location_code)
    THEN Some(get_location_balance(st, from_location_code))
    ELSE None

\* a faulty variant of the balance checks: a movement that would bring the
\* destination above its max_capacity is refused
CheckWithCapacity(st, from_location_code, to_location_code, quantity, fault) ==
    IF st.nested = "closed"
    THEN Result(st, FALSE, "closed_context", 0)
    ELSE IF ~HasBalance(st, to_location_code)
          /\ Upper(to_location_code) \notin DOMAIN st.locations
    THEN Result(st, FALSE, "no_destination", 0)
    ELSE
    LET s2 == IF HasBalance(st, to_location_code) THEN st
              ELSE db_add(st, PendingBalance(NewBalance(Upper(to_location_code))))
        held == IF HasBalance(st, to_location_code)
                THEN get_location_balance(st, to_location_code).quantity ELSE 0
    IN IF source_balance(st, from_location_code) = None
       THEN Result(s2, FALSE, "no_source", 0)
       ELSE IF InsufficientStock(from_location_code,
                   source_balance(st, from_location_code)[1].quantity, quantity)
       THEN Result(s2, FALSE, "insufficient",
                   source_balance(st, from_location_code)[1].quantity)
       ELSE IF Upper(to_location_code) \in DOMAIN st.locations
                /\ held + quantity > st.locations[Upper(to_location_code)].max_capacity
       THEN Result(s2, FALSE, "capacity", 0)
       ELSE Result(s2, TRUE, "validated", 0)

\* lines 199-217: the balance checks, st being the session after provisioning
CheckBalances(st, from_location_code, to_location_code, quantity, fault) ==
    \* the query of line 199 raises inside a block whose transaction is closed
    IF st.nested = "closed"
    THEN Result(st, FALSE, "closed_context", 0)
    ELSE IF ~HasBalance(st, to_location_code)
          /\ Upper(to_location_code) \notin DOMAIN st.locations
    THEN Result(st, FALSE, "no_destination", 0)
    ELSE
    LET s2 == IF HasBalance(st, to_location_code) THEN st
              ELSE db_add(st, PendingBalance(NewBalance(Upper(to_location_code))))
    IN IF source_balance(st, from_location_code) = None
       THEN Result(s2, FALSE, "no_source", 0)
       ELSE IF InsufficientStock(from_location_code,
                   source_balance(st, from_location_code)[1].quantity, quantity)
       THEN Result(s2, FALSE, "insufficient",
                   source_balance(st, from_location_code)[1].quantity)
       ELSE Result(s2, TRUE, "validated", 0)

\* a faulty variant of the comparison: the codes as they were given
SameAsGiven(from_location_code, to_location_code) ==
    from_location_code = to_location_code

\* line 172: the comparison of the two codes
SameLocation(from_location_code, to_location_code) ==
    Upper(from_location_code) = Upper(to_location_code)

\* a faulty variant of the check: zero passes
NegativeOnly(quantity) == quantity < 0

\* line 175: the check of the quantity
NotPositive(quantity) == quantity <= 0

\* a faulty variant of the validations: the quantity is checked before the
\* two codes are compared
QuantityFirst(st, from_location_code, to_location_code, quantity, fault) ==
    IF from_location_code = <<>> \/ to_location_code = <<>>
    THEN Result(st, FALSE, "empty", 0)
    ELSE IF NotPositive(quantity)
    THEN Result(st, FALSE, "quantity", 0)
    ELSE IF SameLocation(from_location_code, to_location_code)
    THEN Result(st, FALSE, "same", 0)
    ELSE TheOne({ CheckBalances(provisioned, from_location_code,
                                to_location_code, quantity, fault) :
                    provisioned \in
                      { ProvisionSystem(
                          ProvisionSystem(st, from_location_code, fault),
                          to_location_code, fault) } })

\* lines 168-217: the validations, with the auto-provisioning of SYSTEM
Validation(st, from_location_code, to_location_code, quantity, fault) ==
    IF from_location_code = <<>> \/ to_location_code = <<>>
    THEN Result(st, FALSE, "empty", 0)
    ELSE IF SameLocation(from_location_code, to_location_code)
    THEN Result(st, FALSE, "same", 0)
    ELSE IF NotPositive(quantity)
    THEN Result(st, FALSE, "quantity", 0)
    ELSE TheOne({ CheckBalances(provisioned, from_location_code,
                                to_location_code, quantity, fault) :
                    provisioned \in
                      { ProvisionSystem(
                          ProvisionSystem(st, from_location_code, fault),
                          to_location_code, fault) } })

record_movement(st, from_location_code, to_location_code, quantity, fault) ==
    TheOne({ IF v.ok
             THEN ApplyMovement(v.st, from_location_code, to_location_code,
                                quantity, fault)
             ELSE v :
             v \in { Validation(st, from_location_code, to_location_code,
                                quantity, fault) } })

(***************************************************************************)
(* Location management.                                                    *)
(***************************************************************************)
\* create_location, lines 57-94
create_location(st, code, max_capacity) ==
    IF ~ValidCode(Upper(code))
    THEN Result(db_rollback(st), FALSE, "error", 0)
    ELSE IF Upper(code) \in DOMAIN st.locations \/ Upper(code) \in DOMAIN st.balances
              \/ ~FlushOk(st)
    THEN Result(db_rollback(st), FALSE, "exists", 0)
    ELSE LET added == db_add(
                 [st EXCEPT !.locations =
                     (Upper(code) :> NewLocation(Upper(code), max_capacity, "active"))
                     @@ @],
                 PendingBalance(NewBalance(Upper(code))))
         IN Result(db_add(db_commit(added), PendingAudit(LogAudit("CREATE", code))),
                   TRUE, "created", 0)

\* update_location, lines 127-136; data is a record of Location attributes
UpdatedLocation(loc, data) ==
    [k \in DOMAIN loc |-> IF k \in DOMAIN data THEN data[k] ELSE loc[k]]

update_location(st, code, data) ==
    IF Upper(code) \in DOMAIN st.locations
    THEN LET set == [st EXCEPT !.locations[Upper(code)] = UpdatedLocation(@, data)]
             logged == db_add(set, PendingAudit(LogAudit("UPDATE", code)))
         IN IF FlushOk(logged)
            THEN Result(db_commit(logged), TRUE, "updated", 0)
            ELSE Result(db_rollback(logged), FALSE, "raised", 0)
    ELSE Result(st, FALSE, "not_found", 0)

\* delete_location, lines 138-149: the code is compared as given
\* a faulty variant of the count: the movements out of the location only
OutgoingCount(st, code) ==
    Cardinality({i \in DOMAIN st.movements :
                    st.movements[i].from_location_code = code})

\* a faulty variant of the count: no location has a history
NoHistory(st, code) == 0

\* a faulty variant of the count: the movements into the location only
IncomingCount(st, code) ==
    Cardinality({i \in DOMAIN st.movements :
                    st.movements[i].to_location_code = code})

HistoryCount(st, code) ==
    Cardinality({i \in DOMAIN st.movements :
                    \/ st.movements[i].from_location_code = code
                    \/ st.movements[i].to_location_code = code})

Without(f, k) == [x \in DOMAIN f \ {k} |-> f[x]]

\* a faulty variant of the deletion: the history is not looked at
delete_unguarded(st, code) ==
    LET deleted == [st EXCEPT !.balances = Without(@, code),
                              !.locations = Without(@, code)]
    IN IF FlushOk(deleted)
       THEN Result(db_commit(deleted), TRUE, "deleted", 0)
       ELSE Result(db_rollback(deleted), FALSE, "raised", 0)

\* a faulty variant of the deletion: the location's movements go with it
delete_cascading(st, code) ==
    LET kept == SelectSeq(st.movements,
                          LAMBDA m : /\ m.from_location_code # code
                                     /\ m.to_location_code # code)
        deleted == [st EXCEPT !.movements = kept,
                              !.balances = Without(@, code),
                              !.locations = Without(@, code)]
    IN IF FlushOk(deleted)
       THEN Result(db_commit(deleted), TRUE, "deleted", 0)
       ELSE Result(db_rollback(deleted), FALSE, "raised", 0)

delete_location(st, code) ==
    IF HistoryCount(st, code) > 0
    THEN Result(st, FALSE, "has_history", 0)
    ELSE LET deleted == [st EXCEPT !.balances = Without(@, code),
                                   !.locations = Without(@, code)]
         IN IF FlushOk(deleted)
            THEN Result(db_commit(deleted), TRUE, "deleted", 0)
            ELSE Result(db_rollback(deleted), FALSE, "raised", 0)

(***************************************************************************)
(* create_movement, lines 35-51: the adapter over record_movement.  data   *)
(* is the payload, a record that may lack the key qty.                     *)
(***************************************************************************)
DataGet(data, key, default) == IF key \in DOMAIN data THEN data[key] ELSE default

create_movement(st, data, fault) ==
    record_movement(st, DataGet(data, "from", <<>>), DataGet(data, "to", <<>>),
                    DataGet(data, "qty", 0), fault)

(***************************************************************************)
(* ingest_excel_file, lines 317-407.  A file is [readable, columns_ok,     *)
(* rows]; a row is [from, to, qty], the quantity cell being                *)
(* [nan, tenths]: not a number, or a decimal number given in tenths.       *)
(* The content hash of a file is modelled by its content.                  *)
(***************************************************************************)
MaxErrors == 50
HeaderOffset == 2

file_hash(file) == [columns_ok |-> file.columns_ok, rows |-> file.rows]

\* int(float(x)): truncation toward zero
IntOfFloat(tenths) == IF tenths >= 0 THEN tenths \div 10 ELSE -((-tenths) \div 10)

\* a faulty variant of the lookup: no earlier run is ever found
NeverIngested(st, hash) == FALSE

\* lines 331-333: a report of an earlier run of the same content
HasReport(st, hash) == hash \in DOMAIN st.reports

NewReport(hash) ==
    [file_hash |-> hash, status |-> "PROCESSING", total_movements |-> 0,
     successful_movements |-> 0, failed_movements |-> 0,
     processing_errors |-> <<>>, completed |-> FALSE]

\* a faulty variant of the message: the row counted from 1, plus the offset
RowErrorFromOne(idx, kind) == [row |-> (idx + 1) + HeaderOffset, kind |-> kind]

\* line 391: the message names idx + 2, idx being the row counted from 0
RowError(idx, kind) == [row |-> idx + HeaderOffset, kind |-> kind]

\* line 352, entering the block: flush, then SAVEPOINT
begin_nested(st) ==
    [db_flush(st) EXCEPT !.nested = "active",
                         !.savepoint = Some(FlushPending(Tables(st), st.pending)[2])]

\* line 352, leaving the block: a SAVEPOINT transaction still open is rolled
\* back when the block raised and released when it did not; one that was
\* ended inside the block is left as it is
end_nested(st, raised) ==
    IF st.nested = "active" /\ raised
    THEN [WithTables(st, st.savepoint[1]) EXCEPT
             !.pending = <<>>, !.nested = "none", !.savepoint = None]
    ELSE [st EXCEPT !.nested = "none", !.savepoint = None]

\* lines 350-392: one data row, idx counted from 0 as pandas does;
\* <<session after the row, succeeded, error kind>>
IngestRow(st, file, idx, fault) ==
    IF ~FlushOk(st) THEN <<db_rollback(st), FALSE, "error">>
    ELSE
    LET sp == begin_nested(st)
        row == file.rows[idx + 1]
    IN IF ~file.columns_ok THEN <<end_nested(sp, TRUE), FALSE, "columns">>
       ELSE IF row.qty.nan THEN <<end_nested(sp, TRUE), FALSE, "value">>
       ELSE TheOne({ <<end_nested(r.st, ~r.ok), r.ok, r.kind>> :
                     r \in { create_movement(sp,
                               [from |-> Upper(row.from), to |-> Upper(row.to),
                                qty |-> IntOfFloat(row.qty.tenths)], fault) } })

\* a faulty variant of the counting: a row that fails is passed over
SuccessesOnly(results, idx, ok, kind) ==
    IF ok THEN [results EXCEPT !.success = @ + 1] ELSE results

\* lines 384-392: the counters after one row
Counted(results, idx, ok, kind) ==
    IF ok THEN [results EXCEPT !.success = @ + 1]
    ELSE [results EXCEPT !.failed = @ + 1,
                         !.errors = Append(@, RowError(idx, kind))]

RECURSIVE IngestRows(_, _, _, _, _, _)
\* the loop of line 349 from row idx on; faultRow is the row (from 0) whose
\* record_movement suffers fault
IngestRows(st, file, idx, results, faultRow, fault) ==
    IF idx >= Len(file.rows) THEN [st |-> st, results |-> results]
    ELSE TheOne({ IngestRows(r[1], file, idx + 1,
                                 Counted(results, idx, r[2], r[3]),
                                 faultRow, fault) :
                  r \in { IngestRow(st, file, idx,
                                    IF idx = faultRow THEN fault ELSE "none") } })

Take(seq, n) == SubSeq(seq, 1, IF Len(seq) < n THEN Len(seq) ELSE n)

\* a faulty variant of the finalization: the status does not look at the
\* failures
FinalizedCompleted(rep, results) ==
    [rep EXCEPT !.total_movements = results.total,
                !.successful_movements = results.success,
                !.failed_movements = results.failed,
                !.status = "COMPLETED",
                !.completed = TRUE,
                !.processing_errors = Take(results.errors, MaxErrors)]

\* lines 394-400: the report row of this run, as far as the session still holds it
Finalized(rep, results) ==
    [rep EXCEPT !.total_movements = results.total,
                !.successful_movements = results.success,
                !.failed_movements = results.failed,
                !.status = IF results.failed = 0 THEN "COMPLETED"
                           ELSE "COMPLETED_WITH_ERRORS",
                !.completed = TRUE,
                !.processing_errors = Take(results.errors, MaxErrors)]

\* what ingest_excel_file leaves and returns: the session, whether it
\* returned, how, and the report object it returned
Returned(st, ok, kind, report) ==
    [st |-> st, ok |-> ok, kind |-> kind, report |-> report]

\* lines 317-407; a faultRow equal to the number of rows puts the fault
\* "commit" on the commit of line 402
ingest_excel_file(st, file, faultRow, fault) ==
    IF ~file.readable THEN Returned(db_rollback(st), FALSE, "raised", None)
    ELSE IF HasReport(st, file_hash(file))
    THEN Returned(st, TRUE, "existing", Some(st.reports[file_hash(file)]))
    ELSE IF ~FlushOk(st) THEN Returned(db_rollback(st), FALSE, "raised", None)
    ELSE
    LET hash == file_hash(file)
        begun == db_flush([st EXCEPT !.reports = (hash :> NewReport(hash)) @@ @])
        \* the session after the loop and lines 394-400, and the report object
        finals ==
            { << [run.st EXCEPT !.reports =
                     [h \in DOMAIN @ |->
                         IF h = hash THEN Finalized(@[h], run.results) ELSE @[h]]],
                 Finalized(NewReport(hash), run.results) >> :
              run \in { IngestRows(begun, file, 0,
                           [total |-> Len(file.rows), success |-> 0,
                            failed |-> 0, errors |-> <<>>], faultRow, fault) } }
    IN TheOne({ IF FlushOk(final[1])
                   /\ ~(faultRow = Len(file.rows) /\ fault = "commit")
                THEN Returned(db_commit(final[1]), TRUE, "report", Some(final[2]))
                ELSE Returned(db_rollback(final[1]), FALSE, "raised", None) :
                final \in finals })

(***************************************************************************)
(* Inputs of the calls.                                                    *)
(***************************************************************************)
abc == <<"a","b","c">>
ABC == <<"A","B","C">>
XYZ == <<"X","Y","Z">>

CreateCodes == { <<"a","b">>, abc, XYZ }
UpdateCodes == { abc }
DeleteCodes == { abc, ABC, XYZ }
MovementCodes == { <<>>, abc, ABC, XYZ, SYSTEM }
FaultCodes == { ABC, XYZ, SYSTEM }

Quantities == -1 .. MaxQty

Capacities == {DefaultCapacity}

UpdateData == { [operational_status |-> "inactive"] }

Cell(tenths) == [nan |-> FALSE, tenths |-> tenths]
NaN == [nan |-> TRUE, tenths |-> 0]
Row(from, to, qty) == [from |-> from, to |-> to, qty |-> qty]

\* a sheet of two rows: an injection of 2.5 and a negative quantity
TwoRows ==
    [readable |-> TRUE, columns_ok |-> TRUE,
     rows |-> << Row(<<"s","y","s","t","e","m">>, abc, Cell(25)),
                 Row(ABC, XYZ, Cell(-10)) >>]

\* a sheet of three rows, the second of a negative quantity, the third
\* moving on what the first injects
ThreeRows ==
    [readable |-> TRUE, columns_ok |-> TRUE,
     rows |-> << Row(SYSTEM, ABC, Cell(10)),
                 Row(ABC, XYZ, Cell(-10)),
                 Row(abc, XYZ, Cell(10)) >>]

\* a sheet of one row, an injection into XYZ
OneRow ==
    [readable |-> TRUE, columns_ok |-> TRUE,
     rows |-> << Row(SYSTEM, XYZ, Cell(10)) >>]

\* a sheet that lacks one of the five columns
NoColumns ==
    [readable |-> TRUE, columns_ok |-> FALSE,
     rows |-> << Row(SYSTEM, ABC, Cell(10)) >>]

\* a file pandas cannot read
Unreadable == [readable |-> FALSE, columns_ok |-> TRUE, rows |-> << >>]

Files == { OneRow, TwoRows, ThreeRows, NoColumns, Unreadable }

RECURSIVE PositiveRows(_, _)
\* the rows from the n-th on that can become a Movement
PositiveRows(file, n) ==
    IF n > Len(file.rows) THEN 0
    ELSE PositiveRows(file, n + 1)
         + (IF ~file.rows[n].qty.nan /\ IntOfFloat(file.rows[n].qty.tenths) > 0
            THEN 1 ELSE 0)

(***************************************************************************)
(* The state machine: one service over one session, its methods called     *)
(* one after the other.                                                    *)
(***************************************************************************)
Committed ==
    [locations |-> locations, balances |-> balances, movements |-> movements,
     audit_logs |-> audit_logs, reports |-> reports]

\* the session as a call finds it
Now == Session(Committed, pending, Committed, "none")

\* the audit rows of create_location and update_location, flushed or pending
LogCount == BagCardinality(audit_logs) - Len(movements) + Len(pending)

\* the two other sessions, each of a service of its own, and where the
\* record_movement call of each stands
Sessions == {"s1", "s2"}
Idle == [pc |-> "idle"]

\* the call's committed effects and the session it leaves behind
Returns(result) ==
    \E r \in {result} :
        /\ locations' = r.st.db.locations
        /\ balances' = r.st.db.balances
        /\ movements' = r.st.db.movements
        /\ audit_logs' = r.st.db.audit_logs
        /\ reports' = r.st.db.reports
        /\ pending' = r.st.pending

Init ==
    /\ locations = << >>
    /\ balances = << >>
    /\ movements = << >>
    /\ audit_logs = EmptyBag
    /\ reports = << >>
    /\ pending = << >>
    /\ calls = [s \in Sessions |-> Idle]
    /\ future \in BOOLEAN

CreateLocation(code, cap) ==
    /\ LogCount < MaxLogs
    /\ Returns(create_location(Now, code, cap))
    /\ UNCHANGED <<calls, future>>

UpdateLocation(code, data) ==
    /\ LogCount < MaxLogs
    /\ Returns(update_location(Now, code, data))
    /\ UNCHANGED <<calls, future>>

DeleteLocation(code) ==
    /\ Returns(delete_location(Now, code))
    /\ UNCHANGED <<calls, future>>

RecordMovement(from, to, quantity, fault) ==
    /\ Len(movements) < MaxMovements
    /\ Returns(record_movement(Now, from, to, quantity, fault))
    /\ UNCHANGED <<calls, future>>

Ingest(file, faultRow, fault) ==
    /\ Len(movements) + PositiveRows(file, 1) <= MaxMovements
    /\ Cardinality(DOMAIN reports \cup {file_hash(file)}) <= MaxReports
    /\ Returns(ingest_excel_file(Now, file, faultRow, fault))
    /\ UNCHANGED <<calls, future>>

Next ==
    \/ \E code \in CreateCodes, cap \in Capacities : CreateLocation(code, cap)
    \/ \E code \in UpdateCodes, data \in UpdateData : UpdateLocation(code, data)
    \/ \E code \in DeleteCodes : DeleteLocation(code)
    \/ \E from \in MovementCodes, to \in MovementCodes, quantity \in Quantities :
          RecordMovement(from, to, quantity, "none")
    \/ \E from \in FaultCodes, to \in FaultCodes, fault \in Faults \ {"none"} :
          RecordMovement(from, to, 1, fault)
    \/ \E file \in Files : Ingest(file, 0, "none")
    \/ \E file \in Files, fault \in {"commit"} :
          \E faultRow \in 0 .. Len(file.rows) : Ingest(file, faultRow, fault)

Spec == Init /\ [][Next]_vars

(***************************************************************************)
(* Concurrent calls.  Two more services, each over a session of its own,   *)
(* call record_movement against the same database (READ COMMITTED, the     *)
(* engine sets no isolation level: src/pallet/database.py:25).  A call is  *)
(* two steps: Validate, lines 168-217, which loads the two balance rows    *)
(* into the session, and Commit, lines 219-268, which computes the new     *)
(* quantities from the rows as loaded and writes them.  The first service  *)
(* registers locations and injects stock while no such call is under way.  *)
(***************************************************************************)
RaceSources == { ABC }
RaceDestinations == { XYZ, SYSTEM }
SeedDestinations == { ABC, XYZ }

AllIdle == \A s \in Sessions : calls[s] = Idle

\* a session that has loaded nothing and holds no pending object
Fresh == Session(Committed, <<>>, Committed, "none")

\* a faulty variant of the view: the balance rows as they are in the
\* database at the time of the commit
FreshView(s) == Session(Committed, calls[s].pending, Committed, "none")

\* a faulty variant of the view: the source row as it is in the database at
\* the time of the commit, the destination row as loaded
SourceFresh(s) ==
    Session([Committed EXCEPT !.balances =
                [@ EXCEPT ![Upper(calls[s].to)] = calls[s].dest_balance]],
            calls[s].pending, Committed, "none")

\* the tables as the session of s sees them at line 219: the two balance
\* rows are the objects it loaded at lines 199-200, whatever has been
\* committed since
StaleView(s) ==
    Session([Committed EXCEPT !.balances =
                [@ EXCEPT ![Upper(calls[s].from)] = calls[s].source_balance,
                          ![Upper(calls[s].to)] = calls[s].dest_balance]],
            calls[s].pending, Committed, "none")

Validate(s, from, to, quantity) ==
    /\ calls[s] = Idle
    /\ \E v \in {Validation(Fresh, from, to, quantity, "none")} :
          /\ locations' = v.st.db.locations
          /\ balances' = v.st.db.balances
          /\ movements' = v.st.db.movements
          /\ audit_logs' = v.st.db.audit_logs
          /\ reports' = v.st.db.reports
          /\ calls' = IF v.ok
                      THEN [calls EXCEPT ![s] =
                              [pc |-> "validated", from |-> from, to |-> to,
                               quantity |-> quantity,
                               source_balance |-> get_location_balance(v.st, from),
                               dest_balance |-> get_location_balance(v.st, to),
                               pending |-> v.st.pending, movement_id |-> 0]]
                      ELSE calls
    /\ UNCHANGED <<pending, future>>

Commit(s) ==
    /\ calls[s].pc = "validated"
    /\ \E r \in {ApplyMovement(StaleView(s), calls[s].from, calls[s].to,
                                calls[s].quantity, "none")} :
          /\ locations' = r.st.db.locations
          /\ balances' = r.st.db.balances
          /\ movements' = r.st.db.movements
          /\ audit_logs' = r.st.db.audit_logs
          /\ reports' = r.st.db.reports
          /\ calls' = [calls EXCEPT
                         ![s].pc = IF r.ok THEN "committed" ELSE "failed",
                         ![s].movement_id = Len(r.st.db.movements)]
    /\ UNCHANGED <<pending, future>>

\* The auto-fix of a call, step by step.  Probe, lines 168-182: the
\* validations pass and the query finds no SYSTEM location.  Provision,
\* lines 183-195: the rows are added and committed, or the commit fails
\* because another session has committed them since.  Check, lines 199-217:
\* the balance checks, on what is committed by then.
Probe(s, from, to, quantity) ==
    /\ calls[s] = Idle
    /\ from # <<>> /\ to # <<>>
    /\ ~SameLocation(from, to)
    /\ ~NotPositive(quantity)
    /\ SYSTEM \in {Upper(from), Upper(to)}
    /\ SYSTEM \notin DOMAIN locations
    /\ calls' = [calls EXCEPT ![s] =
                   [pc |-> "provisioning", from |-> from, to |-> to,
                    quantity |-> quantity]]
    /\ UNCHANGED <<locations, balances, movements, audit_logs, reports,
                   pending, future>>

Provision(s) ==
    /\ calls[s].pc = "provisioning"
    /\ \E st \in {CreateSystem(Fresh, "none")} :
          /\ locations' = st.db.locations
          /\ balances' = st.db.balances
          /\ movements' = st.db.movements
          /\ audit_logs' = st.db.audit_logs
          /\ reports' = st.db.reports
    /\ calls' = [calls EXCEPT ![s] =
                   [pc |-> "provisioned", from |-> calls[s].from,
                    to |-> calls[s].to, quantity |-> calls[s].quantity,
                    created |-> SYSTEM \notin DOMAIN locations]]
    /\ UNCHANGED <<pending, future>>

Check(s) ==
    /\ calls[s].pc = "provisioned"
    /\ \E v \in {CheckBalances(Fresh, calls[s].from, calls[s].to,
                                calls[s].quantity, "none")} :
          calls' = IF v.ok
                   THEN [calls EXCEPT ![s] =
                           [pc |-> "validated", from |-> calls[s].from,
                            to |-> calls[s].to, quantity |-> calls[s].quantity,
                            source_balance |-> get_location_balance(v.st, calls[s].from),
                            dest_balance |-> get_location_balance(v.st, calls[s].to),
                            pending |-> v.st.pending, movement_id |-> 0]]
                   ELSE [calls EXCEPT ![s] = Idle]
    /\ UNCHANGED <<locations, balances, movements, audit_logs, reports,
                   pending, future>>

\* no call is between its balance checks and its commit
NoneLoaded == \A s \in Sessions : calls[s].pc \in {"idle", "provisioning"}

NextRace ==
    \/ \E code \in CreateCodes, cap \in Capacities :
          AllIdle /\ CreateLocation(code, cap)
    \/ \E to \in SeedDestinations, quantity \in 1 .. MaxQty :
          NoneLoaded /\ RecordMovement(SYSTEM, to, quantity, "none")
    \/ \E s \in Sessions, from \in RaceSources, to \in RaceDestinations,
          quantity \in 1 .. MaxQty : Validate(s, from, to, quantity)
    \/ \E s \in Sessions, from \in RaceSources, to \in RaceDestinations,
          quantity \in 1 .. MaxQty : Probe(s, from, to, quantity)
    \/ \E s \in Sessions : Provision(s)
    \/ \E s \in Sessions : Check(s)
    \/ \E s \in Sessions : Commit(s)

SpecRace == Init /\ [][NextRace]_vars

(***************************************************************************)
(* Concurrent calls out of one source into two destinations.  The first    *)
(* service registers three locations and injects stock into ABC; the two   *)
(* other services each move stock from ABC, to XYZ or to QRS.              *)
(***************************************************************************)
QRS == <<"Q","R","S">>
ApartCodes == { abc, XYZ, QRS }
ApartDestinations == { XYZ, QRS }

\* create_location of a code that is not registered yet
RegisterNew(code, cap) ==
    /\ Upper(code) \notin DOMAIN locations
    /\ Returns(create_location(Now, code, cap))
    /\ UNCHANGED <<calls, future>>

NextApart ==
    \/ \E code \in ApartCodes, cap \in Capacities :
          AllIdle /\ RegisterNew(code, cap)
    \/ \E quantity \in 1 .. MaxQty :
          AllIdle /\ RecordMovement(SYSTEM, ABC, quantity, "none")
    \/ \E s \in Sessions, to \in ApartDestinations, quantity \in 1 .. MaxQty :
          Validate(s, ABC, to, quantity)
    \/ \E s \in Sessions : Commit(s)

SpecApart == Init /\ [][NextApart]_vars

(***************************************************************************)
(* Locations of small capacity.  Locations are registered with a            *)
(* max_capacity of 1 or with the default, and stock is moved between them.  *)
(***************************************************************************)
SmallCodes == { abc, XYZ }
SmallCapacities == { 1, DefaultCapacity }

NextCapacity ==
    \/ \E code \in SmallCodes, cap \in SmallCapacities : RegisterNew(code, cap)
    \/ \E from \in MovementCodes, to \in MovementCodes, quantity \in Quantities :
          RecordMovement(from, to, quantity, "none")
    \/ \E from \in FaultCodes, to \in FaultCodes, fault \in Faults \ {"none"} :
          RecordMovement(from, to, 1, fault)

SpecCapacity == Init /\ [][NextCapacity]_vars

(***************************************************************************)
(* Ingest runs, step by step.  Each of the two other services runs         *)
(* ingest_excel_file over a session of its own: Guard, lines 323-333 (the  *)
(* file is read and the report of its hash looked up); Insert, lines       *)
(* 335-347 (the PROCESSING report is added and flushed); RowStep, one pass *)
(* of the loop of lines 349-392; Finalize, lines 394-403.  The unique      *)
(* index on file_hash (models.py:235) makes the INSERT of a second report  *)
(* of a hash wait for the transaction that holds the first; runs of other  *)
(* contents are not interleaved here, and the storage accepts every write. *)
(* The first service registers locations and injects stock between runs.   *)
(***************************************************************************)
NoResults(file) ==
    [total |-> Len(file.rows), success |-> 0, failed |-> 0, errors |-> <<>>]

\* what a session commits becomes the committed tables
Publishes(st) ==
    /\ locations' = st.db.locations
    /\ balances' = st.db.balances
    /\ movements' = st.db.movements
    /\ audit_logs' = st.db.audit_logs
    /\ reports' = st.db.reports

\* a run is between the INSERT of its report and its last commit
InRows(s) == calls[s].pc = "rows"

\* a run has a row to take: RowStep(s) is enabled, and it changes calls[s]
RowReady(s) == InRows(s) /\ calls[s].idx < Len(calls[s].file.rows)

Guard(s, file) ==
    /\ calls[s] = Idle
    /\ Len(movements) + PositiveRows(file, 1) <= MaxMovements
    /\ Cardinality(DOMAIN reports \cup {file_hash(file)}) <= MaxReports
    /\ calls' = [calls EXCEPT ![s] =
                   IF ~file.readable THEN [pc |-> "raised", file |-> file]
                   ELSE IF HasReport(Fresh, file_hash(file))
                   THEN [pc |-> "existing", file |-> file,
                         report |-> reports[file_hash(file)]]
                   ELSE [pc |-> "guarded", file |-> file]]
    /\ UNCHANGED <<locations, balances, movements, audit_logs, reports,
                   pending, future>>

\* a faulty variant of the index: any number of reports of one hash
FileHashFree(hash) == FALSE

\* models.py:235, file_hash is unique: the INSERT of line 345 is refused
\* when a committed report has the hash
FileHashTaken(hash) == HasReport(Fresh, hash)

Insert(s) ==
    /\ calls[s].pc = "guarded"
    /\ \A other \in Sessions \ {s} : ~InRows(other)
    /\ calls' = [calls EXCEPT ![s] =
                   IF FileHashTaken(file_hash(calls[s].file))
                   THEN [pc |-> "raised", file |-> calls[s].file]
                   ELSE [pc |-> "rows", file |-> calls[s].file, idx |-> 0,
                         results |-> NoResults(calls[s].file),
                         st |-> db_flush([Fresh EXCEPT !.reports =
                                   (file_hash(calls[s].file)
                                      :> NewReport(file_hash(calls[s].file))) @@ @])]]
    /\ UNCHANGED <<locations, balances, movements, audit_logs, reports,
                   pending, future>>

RowStep(s) ==
    /\ RowReady(s)
    /\ \E r \in {IngestRow(calls[s].st, calls[s].file, calls[s].idx, "none")} :
          /\ Publishes(r[1])
          /\ calls' = [calls EXCEPT
                         ![s].st = r[1],
                         ![s].idx = @ + 1,
                         ![s].results = Counted(@, calls[s].idx, r[2], r[3])]
    /\ UNCHANGED <<pending, future>>

Finalize(s) ==
    /\ InRows(s)
    /\ calls[s].idx = Len(calls[s].file.rows)
    /\ \E final \in {[calls[s].st EXCEPT !.reports =
                          [h \in DOMAIN @ |->
                              IF h = file_hash(calls[s].file)
                              THEN Finalized(@[h], calls[s].results)
                              ELSE @[h]]]} :
          \E st \in {IF FlushOk(final) THEN db_commit(final) ELSE db_rollback(final)} :
             /\ Publishes(st)
             /\ calls' = [calls EXCEPT ![s] =
                            IF FlushOk(final)
                            THEN [pc |-> "finalized", file |-> calls[s].file,
                                  results |-> calls[s].results,
                                  report |-> Finalized(
                                      NewReport(file_hash(calls[s].file)),
                                      calls[s].results)]
                            ELSE [pc |-> "raised", file |-> calls[s].file]]
    /\ UNCHANGED <<pending, future>>

NextIngest ==
    \/ \E code \in CreateCodes, cap \in Capacities :
          AllIdle /\ CreateLocation(code, cap)
    \/ \E to \in SeedDestinations, quantity \in 1 .. MaxQty :
          AllIdle /\ RecordMovement(SYSTEM, to, quantity, "none")
    \/ \E s \in Sessions, file \in Files : Guard(s, file)
    \/ \E s \in Sessions : Insert(s)
    \/ \E s \in Sessions : RowStep(s)
    \/ \E s \in Sessions : Finalize(s)

\* A run is sequential code: the step it stands before is taken.  The
\* second line is WF_vars(RowStep(s)) with ENABLED <<RowStep(s)>>_vars
\* written as the state predicate it is, RowReady(s).
RunsOn ==
    \A s \in Sessions :
        /\ WF_vars(Insert(s)) /\ WF_vars(Finalize(s))
        /\ ([]<>(~RowReady(s)) \/ []<><<RowStep(s)>>_vars)

SpecIngest == Init /\ [][NextIngest]_vars /\ RunsOn

(***************************************************************************)
(* Vocabulary of the properties.  A property about a call is stated for    *)
(* every reachable state and every input of the call: Call(...) is what    *)
(* record_movement does when it is called in the current state.            *)
(***************************************************************************)
CallCodes == MovementCodes \cup { <<"s","y","s","t","e","m">> }

Call(from, to, quantity, fault) == record_movement(Now, from, to, quantity, fault)

RECURSIVE SumQuantity(_, _)
SumQuantity(bals, codes) ==
    IF codes = {} THEN 0
    ELSE LET c == CHOOSE x \in codes : TRUE
         IN bals[c].quantity + SumQuantity(bals, codes \ {c})

\* sum(balance.quantity) over the locations other than SYSTEM
NonSystemSum(bals) == SumQuantity(bals, DOMAIN bals \ {SYSTEM})

\* the quantity of a location's balance, 0 while it has no balance row
QuantityAt(bals, code) == IF code \in DOMAIN bals THEN bals[code].quantity ELSE 0

\* nothing committed and nothing in the session differs after the call
Untouched(r) == r.st.db = Committed /\ r.st.pending = pending

\* the committed tables are what they were before the call
SameRows(r) == r.st.db = Committed

\* C1: a record_movement call whose source and destination are both other
\* than SYSTEM, successful or failed, with or without a storage failure,
\* leaves the sum of the non-SYSTEM balance quantities what it was; hence so
\* does every sequence of such calls.
C1_Conservation ==
    \A from \in CallCodes, to \in CallCodes :
        (Upper(from) # SYSTEM /\ Upper(to) # SYSTEM) =>
            \A quantity \in Quantities, fault \in Faults :
                NonSystemSum(Call(from, to, quantity, fault).st.db.balances)
                    = NonSystemSum(balances)

\* a transfer between two locations other than SYSTEM has been committed
C1_Witness ==
    \E i \in DOMAIN movements :
        /\ movements[i].from_location_code # SYSTEM
        /\ movements[i].to_location_code # SYSTEM
        /\ NonSystemSum(balances) > 0

\* C2: in every state reached by sequentially executed operations, every
\* balance of a location other than SYSTEM has quantity >= 0.
C2_NonNegative ==
    \A code \in DOMAIN balances :
        code # SYSTEM => balances[code].quantity >= 0

\* a location other than SYSTEM has sent out all the stock it had received
C2_Witness ==
    \E i \in DOMAIN movements :
        /\ movements[i].from_location_code # SYSTEM
        /\ balances[movements[i].from_location_code].quantity = 0

\* C3: a record_movement call that returns failure leaves the Location,
\* Balance, Movement and AuditLog rows exactly what they were.
C3_FailureChangesNothing ==
    \A from \in CallCodes, to \in CallCodes, quantity \in Quantities :
        \A r \in {Call(from, to, quantity, "none")} :
            ~r.ok => SameRows(r)

\* C4: a successful record_movement(from, to, q) decreases the source balance
\* quantity by exactly q and increases the destination balance quantity by
\* exactly q (a balance provisioned by the call counting from 0), appends
\* exactly one Movement, with status completed and the upper-cased codes,
\* and leaves the quantity of every other balance unchanged.
C4_DoubleEntry ==
    \A from \in CallCodes, to \in CallCodes, quantity \in Quantities :
        \A r \in {Call(from, to, quantity, "none")} :
            r.ok =>
                LET after == r.st.db.balances IN
                /\ DOMAIN balances \subseteq DOMAIN after
                /\ {Upper(from), Upper(to)} \subseteq DOMAIN after
                /\ after[Upper(from)].quantity
                       = QuantityAt(balances, Upper(from)) - quantity
                /\ after[Upper(to)].quantity
                       = QuantityAt(balances, Upper(to)) + quantity
                /\ \A code \in DOMAIN after \ {Upper(from), Upper(to)} :
                       /\ code \in DOMAIN balances
                       /\ after[code].quantity = balances[code].quantity
                /\ Len(r.st.db.movements) = Len(movements) + 1
                /\ SubSeq(r.st.db.movements, 1, Len(movements)) = movements
                /\ \A m \in {r.st.db.movements[Len(movements) + 1]} :
                       /\ m.status = "completed"
                       /\ m.from_location_code = Upper(from)
                       /\ m.to_location_code = Upper(to)
                       /\ m.quantity = quantity

\* a call given a lower-case code succeeds in the current state, which
\* itself holds the effect of an earlier movement
C4_Witness ==
    /\ \E i \in DOMAIN movements :
           balances[movements[i].to_location_code].quantity
               >= movements[i].quantity
    /\ \E to \in CallCodes, quantity \in Quantities :
           Call(abc, to, quantity, "none").ok

\* the MOVEMENT audit rows that reference movement id
AuditRowsOf(logs, id) ==
    {a \in BagToSet(logs) : a.action = "MOVEMENT" /\ a.movement_id = Some(id)}

\* C5: each committed Movement has exactly one AuditLog row referencing it;
\* that row has the Movement's quantity and from/to codes, and
\* debit_balance_after = debit_balance_before - quantity and
\* credit_balance_after = credit_balance_before + quantity.
C5_AuditComplete ==
    \A i \in DOMAIN movements :
        /\ Cardinality(AuditRowsOf(audit_logs, movements[i].id)) = 1
        /\ \A a \in AuditRowsOf(audit_logs, movements[i].id) :
               /\ CopiesIn(a, audit_logs) = 1
               /\ a.quantity = movements[i].quantity
               /\ a.debit_location_code = movements[i].from_location_code
               /\ a.credit_location_code = movements[i].to_location_code
               /\ a.debit_balance_after =
                      Some(a.debit_balance_before[1] - movements[i].quantity)
               /\ a.credit_balance_after =
                      Some(a.credit_balance_before[1] + movements[i].quantity)

\* two movements are committed, beside audit rows that reference no movement
C5_Witness ==
    /\ Len(movements) >= 2
    /\ BagCardinality(audit_logs) > Len(movements)

\* the quantity the movements say a location holds: what came in less what
\* went out
RECURSIVE LedgerQuantity(_, _)
LedgerQuantity(moves, code) ==
    IF moves = <<>> THEN 0
    ELSE LET m == moves[Len(moves)]
         IN LedgerQuantity(SubSeq(moves, 1, Len(moves) - 1), code)
              + (IF m.to_location_code = code THEN m.quantity ELSE 0)
              - (IF m.from_location_code = code THEN m.quantity ELSE 0)

\* the committed tables hold every movement whole: its audit row, and its
\* quantity in both balances and in both locations' cached stock
WholeMovements(db) ==
    /\ \A i \in DOMAIN db.movements :
           Cardinality(AuditRowsOf(db.audit_logs, db.movements[i].id)) = 1
    /\ \A a \in BagToSet(db.audit_logs) :
           a.action = "MOVEMENT" =>
               \E i \in DOMAIN db.movements : a.movement_id = Some(db.movements[i].id)
    /\ \A code \in DOMAIN db.balances :
           /\ db.balances[code].quantity = LedgerQuantity(db.movements, code)
           /\ db.locations[code].current_stock = LedgerQuantity(db.movements, code)
    /\ \A i \in DOMAIN db.movements :
           {db.movements[i].from_location_code, db.movements[i].to_location_code}
               \subseteq DOMAIN db.balances

\* C6: when the storage fails during the atomic step of record_movement (at
\* the flush of the movement row or at the commit), the call returns failure
\* and commits no movement, no balance change and no audit row; and no
\* committed state holds a movement without both balance updates and its
\* audit row, or any of these without the movement.
C6_NoPartialApplication ==
    /\ WholeMovements(Committed)
    /\ \A from \in CallCodes, to \in CallCodes, quantity \in Quantities :
           Call(from, to, quantity, "none").ok =>
               \A fault \in {"flush", "commit"} :
                   \A r \in {Call(from, to, quantity, fault)} :
                       /\ ~r.ok
                       /\ r.st.db.movements = movements
                       /\ WholeMovements(r.st.db)
                       /\ \A code \in DOMAIN r.st.db.balances :
                              r.st.db.balances[code].quantity
                                  = QuantityAt(balances, code)

\* movements are committed and a further one would succeed, were it not for
\* the storage failure
C6_Witness ==
    /\ Len(movements) >= 1
    /\ \E from \in CallCodes, to \in CallCodes, quantity \in Quantities :
           /\ Call(from, to, quantity, "none").ok
           /\ ~Call(from, to, quantity, "commit").ok
           /\ ~Call(from, to, quantity, "flush").ok

\* two concurrent calls out of the same source, other than SYSTEM, that
\* loaded the same source quantity and have both committed
RacedOn(s1, s2, code) ==
    /\ s1 # s2
    /\ calls[s1].pc = "committed" /\ calls[s2].pc = "committed"
    /\ code # SYSTEM
    /\ Upper(calls[s1].from) = code /\ Upper(calls[s2].from) = code
    /\ calls[s1].source_balance.quantity = calls[s2].source_balance.quantity

\* C7: two record_movement calls running concurrently in separate sessions
\* against the same source other than SYSTEM, having read the same source
\* quantity, both pass the stock check on it and both commit: each one's
\* Movement is committed with its quantity, each quantity being within the
\* quantity read, and the source balance is left at the quantity read less
\* one call's quantity, the other call's debit being overwritten; so the
\* committed movements out of the source can exceed the stock it had, while
\* the stored balance quantity stays at or above zero.
C7_StaleReadRace ==
    \A s1 \in Sessions, s2 \in Sessions, code \in DOMAIN balances :
        RacedOn(s1, s2, code) =>
            /\ \A s \in {s1, s2} :
                   /\ calls[s].movement_id \in DOMAIN movements
                   /\ movements[calls[s].movement_id].from_location_code = code
                   /\ movements[calls[s].movement_id].quantity = calls[s].quantity
                   /\ calls[s].quantity <= calls[s].source_balance.quantity
            /\ calls[s1].movement_id # calls[s2].movement_id
            /\ \E s \in {s1, s2} :
                   balances[code].quantity
                       = calls[s].source_balance.quantity - calls[s].quantity
            /\ balances[code].quantity >= 0
            /\ LedgerQuantity(movements, code)
                   = calls[s1].source_balance.quantity
                       - calls[s1].quantity - calls[s2].quantity

\* both calls have committed and the movements out of the source exceed the
\* stock it had: by the movements the source holds less than nothing
C7_Witness ==
    \E s1 \in Sessions, s2 \in Sessions, code \in DOMAIN balances :
        /\ RacedOn(s1, s2, code)
        /\ calls[s1].quantity + calls[s2].quantity
               > calls[s1].source_balance.quantity
        /\ LedgerQuantity(movements, code) < 0

\* the destination of a call resolves: it is registered, or it is the
\* SYSTEM account, which the call provisions
Resolves(code) == Upper(code) \in DOMAIN balances \/ Upper(code) = SYSTEM

\* C8: for a source other than SYSTEM whose balance quantity is less than
\* the requested quantity (the destination being another location that
\* resolves), record_movement fails, its message reports the current source
\* quantity as available, and no balance or movement row changes (the audit
\* rows are left out of the comparison: a failing call cannot add one for a
\* movement without adding the movement).
C8_InsufficientStock ==
    \A from \in CallCodes, to \in CallCodes, quantity \in Quantities :
        ( /\ Upper(from) # SYSTEM
          /\ Upper(from) \in DOMAIN balances
          /\ balances[Upper(from)].quantity < quantity
          /\ to # <<>> /\ Upper(to) # Upper(from) /\ Resolves(to) )
        => \A r \in {Call(from, to, quantity, "none")} :
               /\ ~r.ok
               /\ r.kind = "insufficient"
               /\ r.avail = balances[Upper(from)].quantity
               /\ r.st.db.balances = balances
               /\ r.st.db.movements = movements

\* C9: with no SYSTEM location present and location A registered,
\* record_movement(SYSTEM -> A, q) succeeds for every q > 0 (the storage
\* not failing), provisions the SYSTEM location and balance, increases
\* balance(A) by q and leaves balance(SYSTEM) at -q.
C9_SystemInjection ==
    \A from \in CallCodes, to \in CallCodes, quantity \in Quantities :
        ( /\ Upper(from) = SYSTEM
          /\ SYSTEM \notin DOMAIN locations
          /\ Upper(to) \in DOMAIN balances
          /\ quantity > 0 )
        => \A r \in {Call(from, to, quantity, "none")} :
               /\ r.ok
               /\ SYSTEM \in DOMAIN r.st.db.locations
               /\ SYSTEM \in DOMAIN r.st.db.balances
               /\ r.st.db.balances[SYSTEM].quantity = -quantity
               /\ r.st.db.balances[Upper(to)].quantity
                      = balances[Upper(to)].quantity + quantity

\* the first movement came out of the SYSTEM account, which the call had to
\* provision and which is left negative
C9_Witness ==
    /\ movements # <<>>
    /\ movements[1].from_location_code = SYSTEM
    /\ SYSTEM \in DOMAIN locations
    /\ balances[SYSTEM].quantity = -movements[1].quantity
    /\ balances[movements[1].to_location_code].quantity = movements[1].quantity

\* C10: record_movement fails whenever the source and destination codes are
\* equal after upper-casing both, for every quantity, with the same-location
\* message when the codes are not empty, and the state is unchanged.
C10_SameLocation ==
    \A from \in CallCodes, to \in CallCodes :
        Upper(from) = Upper(to) =>
            \A quantity \in Quantities, fault \in Faults :
                \A r \in {Call(from, to, quantity, fault)} :
                    /\ ~r.ok
                    /\ (from # <<>> => r.kind = "same")
                    /\ Untouched(r)

\* a location holds stock, and a call naming it as abc and as ABC is
\* rejected as a same-location movement
C10_Witness ==
    /\ ABC \in DOMAIN balances
    /\ balances[ABC].quantity > 0
    /\ \E quantity \in Quantities :
           /\ quantity > 0
           /\ Call(abc, ABC, quantity, "none").kind = "same"

\* the payloads of create_movement: with a quantity, and without the key qty
Payloads ==
    [from : CallCodes, to : CallCodes, qty : Quantities]
        \cup [from : CallCodes, to : CallCodes]

\* C11: record_movement, and create_movement also when its payload has no
\* qty, fails for every quantity <= 0 and changes no state; every stored
\* Movement has a quantity > 0 and a source other than its destination.
C11_PositiveQuantity ==
    /\ \A from \in CallCodes, to \in CallCodes, fault \in Faults :
           \A quantity \in Quantities :
               quantity <= 0 =>
                   \A r \in {Call(from, to, quantity, fault)} :
                       ~r.ok /\ Untouched(r)
    /\ \A data \in Payloads :
           DataGet(data, "qty", 0) <= 0 =>
               \A r \in {create_movement(Now, data, "none")} :
                   ~r.ok /\ Untouched(r)
    /\ \A i \in DOMAIN movements :
           /\ movements[i].quantity > 0
           /\ movements[i].from_location_code # movements[i].to_location_code

\* stock has been moved between two registered locations, and in that state
\* a movement of nothing between them, and a payload without qty, are refused
\* for the quantity
C11_Witness ==
    /\ \E i \in DOMAIN movements : movements[i].from_location_code = ABC
    /\ XYZ \in DOMAIN balances
    /\ Call(ABC, XYZ, 0, "none").kind = "quantity"
    /\ create_movement(Now, [from |-> ABC, to |-> XYZ], "none").kind = "quantity"

\* the session a call finds when the Balance row of code is missing from
\* the database
WithoutBalance(st, code) ==
    [st EXCEPT !.balances = Without(@, Upper(code)),
               !.db.balances = Without(@, Upper(code))]

\* a call that passes the checks of lines 169-176
PassesChecks(from, to, quantity) ==
    from # <<>> /\ to # <<>> /\ Upper(from) # Upper(to) /\ quantity > 0

\* C12: when the destination (other than SYSTEM) has no Balance row,
\* record_movement adds a zero-quantity Balance for it and goes on to the
\* source and stock checks if a Location of that code exists; if none exists
\* it fails with the unknown-destination message and creates nothing.
C12_DestinationResolution ==
    \A from \in CallCodes, to \in CallCodes, quantity \in Quantities :
        (PassesChecks(from, to, quantity) /\ Upper(to) # SYSTEM) =>
            \A now \in {Now, WithoutBalance(Now, to)} :
                ~HasBalance(now, to) =>
                    \A r \in {record_movement(now, from, to, quantity, "none")} :
                        IF Upper(to) \in DOMAIN now.locations
                        THEN /\ r.kind \in {"no_source", "insufficient", "recorded"}
                             /\ r.ok => /\ Upper(to) \in DOMAIN r.st.db.balances
                                         /\ r.st.db.balances[Upper(to)].quantity
                                                = quantity
                             /\ ~r.ok => \E i \in DOMAIN r.st.pending :
                                            r.st.pending[i] =
                                              PendingBalance(NewBalance(Upper(to)))
                        ELSE /\ r.kind = "no_destination"
                             /\ r.st.db = now.db
                             /\ r.st.pending = now.pending

\* the destination of a call is found or provisioned at lines 178-210
DestinationKnown(to, fault) ==
    \/ Upper(to) \in DOMAIN locations
    \/ Upper(to) = SYSTEM /\ fault # "provision"

\* a Balance row of code is in the database, in the transaction or pending
BalanceIn(st, code) ==
    \/ code \in DOMAIN st.db.balances
    \/ code \in DOMAIN st.balances
    \/ \E i \in DOMAIN st.pending : st.pending[i] = PendingBalance(NewBalance(code))

\* C13: a record_movement call whose source has no Balance row when the
\* source is looked up (a source other than SYSTEM, or SYSTEM when its
\* auto-provisioning fails) fails; it fails with the unknown-source message
\* when the checks before pass (codes, quantity, destination); and it leaves
\* no Balance row for the source anywhere.
C13_UnknownSource ==
    \A from \in CallCodes \ {<<>>}, to \in CallCodes, quantity \in Quantities,
       fault \in Faults :
        (/\ ~HasBalance(Now, from)
         /\ Upper(from) = SYSTEM => fault = "provision") =>
            \A r \in {Call(from, to, quantity, fault)} :
                /\ ~r.ok
                /\ (PassesChecks(from, to, quantity) /\ DestinationKnown(to, fault))
                       => r.kind = "no_source"
                /\ ~BalanceIn(r.st, Upper(from))

\* a location is registered, and a movement into it from a code that was
\* never registered is refused for its source
C13_Witness ==
    /\ XYZ \in DOMAIN balances
    /\ ABC \notin DOMAIN balances
    /\ Call(abc, XYZ, 1, "none").kind = "no_source"
    /\ Call(SYSTEM, XYZ, 1, "provision").kind = "no_source"

\* C14: for a registered location, named by its code as stored,
\* delete_location fails and deletes nothing whenever a Movement has that
\* code as its source or destination; when it succeeds, neither the Location
\* row nor the Balance row of the code is left.
C14_DeletionGuard ==
    \A code \in DOMAIN locations :
        \A r \in {delete_location(Now, code)} :
            /\ (\E i \in DOMAIN movements :
                    \/ movements[i].from_location_code = code
                    \/ movements[i].to_location_code = code)
                   => ~r.ok /\ Untouched(r)
            /\ r.ok => /\ code \notin DOMAIN r.st.db.locations
                        /\ code \notin DOMAIN r.st.db.balances
                        /\ \A other \in DOMAIN locations \ {code} :
                               /\ other \in DOMAIN r.st.db.locations
                               /\ other \in DOMAIN balances
                                     => other \in DOMAIN r.st.db.balances

\* a location has only received stock and its deletion is refused, while
\* another registered location without movements can be deleted
C14_Witness ==
    /\ \E i \in DOMAIN movements : movements[i].to_location_code = ABC
    /\ \A i \in DOMAIN movements : movements[i].from_location_code # ABC
    /\ delete_location(Now, ABC).kind = "has_history"
    /\ XYZ \in DOMAIN locations
    /\ delete_location(Now, XYZ).ok

\* the storage faults of an ingest: none, or the commit of any of the rows'
\* record_movement, or the commit of line 402
IngestFaults(file) == {<<0, "none">>} \cup ((0 .. Len(file.rows)) \X {"commit"})

\* what ingest_excel_file does when it is called in the current state
IngestCall(file, f) == ingest_excel_file(Now, file, f[1], f[2])

\* C15: once a report of a content exists, an ingest of the same content
\* returns that report as it is, and creates no Movement, no report, and
\* changes no balance nor anything else.
C15_IdempotentReingestion ==
    \A file \in Files :
        (file.readable /\ file_hash(file) \in DOMAIN reports) =>
            \A f \in IngestFaults(file) :
                \A r \in {IngestCall(file, f)} :
                    /\ r.ok
                    /\ r.kind = "existing"
                    /\ r.report = Some(reports[file_hash(file)])
                    /\ Untouched(r)

\* a run of the two-row sheet has finished and recorded its movement; a
\* second run of the same sheet returns the existing report
C15_Witness ==
    /\ file_hash(TwoRows) \in DOMAIN reports
    /\ reports[file_hash(TwoRows)].completed
    /\ reports[file_hash(TwoRows)].successful_movements = 1
    /\ Len(movements) = 1
    /\ IngestCall(TwoRows, <<0, "none">>).kind = "existing"

\* the rows (counted from 1) that the report of a run lists as failed
FailedRows(report) ==
    { report.processing_errors[i].row - HeaderOffset + 1 :
          i \in DOMAIN report.processing_errors }

\* source, destination and quantity of a movement
Triple(m) == <<m.from_location_code, m.to_location_code, m.quantity>>

RECURSIVE RowTriples(_, _, _)
\* what the rows from the n-th on ask for, those in failed left out
RowTriples(file, failed, n) ==
    IF n > Len(file.rows) THEN <<>>
    ELSE (IF n \in failed THEN <<>>
          ELSE << <<Upper(file.rows[n].from), Upper(file.rows[n].to),
                    IntOfFloat(file.rows[n].qty.tenths)>> >>)
         \o RowTriples(file, failed, n + 1)

\* the movements of the committed tables db are those there were and then
\* one for each row of the file that is not in failed, in the order of the rows
MovementsOfRows(db, file, failed) ==
    [i \in DOMAIN db.movements |-> Triple(db.movements[i])]
        = [i \in DOMAIN movements |-> Triple(movements[i])]
              \o RowTriples(file, failed, 1)

\* the committed tables after the run r of the file hold, beside what there
\* was, the movements of the rows that succeeded and nothing of the others:
\* each movement with its one audit row and its quantity in both balances
IsolatedRows(file, r) ==
    /\ MovementsOfRows(r.st.db, file, FailedRows(r.report[1]))
    /\ WholeMovements(r.st.db)

\* C16: when an ingest returns its report, a row that failed has left no
\* movement, no audit row, no balance quantity and no balance row, and every
\* row that succeeded, before or after it, has its movement, its audit row
\* and its quantity in both balances in the committed state.
C16_PerRowIsolation ==
    \A file \in Files :
        \A f \in IngestFaults(file) :
            \A r \in {IngestCall(file, f)} :
                r.kind = "report" =>
                    /\ IsolatedRows(file, r)
                    /\ DOMAIN r.st.db.balances = DOMAIN balances

\* the same but for the balance rows: this much holds of every run
RowsIsolatedInQuantity ==
    \A file \in Files :
        \A f \in IngestFaults(file) :
            \A r \in {IngestCall(file, f)} :
                r.kind = "report" => IsolatedRows(file, r)

\* C17: the report a run of ingest creates and returns has total_movements
\* equal to the number of data rows, successful_movements + failed_movements
\* = total_movements, successful_movements equal to the number of Movements
\* the run has created, status COMPLETED if failed_movements = 0 and
\* COMPLETED_WITH_ERRORS if not, and completed_at set.
C17_Finalization ==
    \A file \in Files :
        \A f \in IngestFaults(file) :
            \A r \in {IngestCall(file, f)} :
                r.kind = "report" =>
                    \A report \in {r.report[1]} :
                        /\ report.total_movements = Len(file.rows)
                        /\ report.successful_movements + report.failed_movements
                               = report.total_movements
                        /\ report.successful_movements
                               = Len(r.st.db.movements) - Len(movements)
                        /\ report.status =
                               IF report.failed_movements = 0
                               THEN "COMPLETED" ELSE "COMPLETED_WITH_ERRORS"
                        /\ report.completed

\* a run of the two-row sheet has been committed with one row failed out
\* of two, and a run of the one-row sheet would now succeed in its row
C17_Witness ==
    /\ file_hash(TwoRows) \in DOMAIN reports
    /\ reports[file_hash(TwoRows)].status = "COMPLETED_WITH_ERRORS"
    /\ reports[file_hash(TwoRows)].successful_movements = 1
    /\ reports[file_hash(TwoRows)].failed_movements = 1
    /\ reports[file_hash(TwoRows)].completed
    /\ IngestCall(OneRow, <<0, "none">>).kind = "report"
    /\ IngestCall(OneRow, <<0, "none">>).report[1].status = "COMPLETED"

\* the sheets of three rows whose second row has a negative quantity
NegativeSecondRow ==
    { file \in Files :
        /\ file.readable /\ file.columns_ok /\ Len(file.rows) = 3
        /\ ~file.rows[2].qty.nan /\ IntOfFloat(file.rows[2].qty.tenths) < 0 }

\* the report of a run whose first and third rows succeeded
OnlySecondFailed(report) ==
    /\ report.total_movements = 3
    /\ report.successful_movements = 2
    /\ report.failed_movements = 1
    /\ Len(report.processing_errors) = 1

C19_SchemaMismatch ==
    \A file \in Files :
        (file.readable /\ ~file.columns_ok
            /\ file_hash(file) \notin DOMAIN reports) =>
            \A r \in {IngestCall(file, <<0, "none">>)} :
                /\ ~r.ok
                /\ r.kind = "raised"
                /\ file_hash(file) \notin DOMAIN r.st.db.reports

\* C20: when ingest raises (the file cannot be read, or the storage fails
\* after rows have been processed), the run is rolled back entirely: the
\* committed tables are what they were, and hold no report of the content.
C20_AbortedRunLeavesNoReport ==
    \A file \in Files :
        file_hash(file) \notin DOMAIN reports =>
            \A f \in IngestFaults(file) :
                \A r \in {IngestCall(file, f)} :
                    r.kind = "raised" =>
                        /\ file_hash(file) \notin DOMAIN r.st.db.reports
                        /\ SameRows(r)

\* the codes given to create_location in the properties
RegisterCodes == CreateCodes \cup { ABC, SYSTEM, <<>> }

\* what create_location does when it is called in the current state
Register(code, cap) == create_location(Now, code, cap)

\* C21: a successful create_location(code, ...) adds one Location row, of
\* the upper-cased code and current_stock 0, and one Balance row of that
\* code with quantity, quantity_allocated and quantity_available 0; every
\* other location and balance row is what it was.
C21_Registration ==
    \A code \in RegisterCodes, cap \in Capacities :
        \A r \in {Register(code, cap)} :
            r.ok =>
                /\ Upper(code) \notin DOMAIN locations
                /\ Upper(code) \notin DOMAIN balances
                /\ DOMAIN r.st.db.locations = DOMAIN locations \cup {Upper(code)}
                /\ DOMAIN r.st.db.balances = DOMAIN balances \cup {Upper(code)}
                /\ r.st.db.locations[Upper(code)].code = Upper(code)
                /\ r.st.db.locations[Upper(code)].current_stock = 0
                /\ r.st.db.locations[Upper(code)].max_capacity = cap
                /\ r.st.db.balances[Upper(code)].location_code = Upper(code)
                /\ r.st.db.balances[Upper(code)].quantity = 0
                /\ r.st.db.balances[Upper(code)].quantity_allocated = 0
                /\ r.st.db.balances[Upper(code)].quantity_available = 0
                /\ \A other \in DOMAIN locations :
                       r.st.db.locations[other] = locations[other]
                /\ \A other \in DOMAIN balances :
                       r.st.db.balances[other] = balances[other]

\* abc has been registered beside a location that holds stock: it is stored
\* as ABC with an empty balance, and the other location has kept its stock
C21_Witness ==
    /\ \E i \in DOMAIN pending :
           /\ pending[i].table = "audit"
           /\ pending[i].row.action = "CREATE"
           /\ pending[i].row.record_id = abc
    /\ ABC \in DOMAIN locations
    /\ balances[ABC].quantity = 0
    /\ XYZ \in DOMAIN balances
    /\ balances[XYZ].quantity > 0

\* C22: create_location fails when a Location of the upper-cased code
\* exists and when the code has fewer than 3 characters; in both cases the
\* Location and Balance rows, committed and as the session sees them, are
\* what they were, the balance of the existing location included.
C22_RegistrationFailures ==
    \A code \in RegisterCodes, cap \in Capacities :
        (Upper(code) \in DOMAIN locations \/ Len(code) < 3) =>
            \A r \in {Register(code, cap)} :
                /\ ~r.ok
                /\ r.st.db.locations = locations
                /\ r.st.db.balances = balances
                /\ r.st.locations = locations
                /\ r.st.balances = balances
                /\ \A i \in DOMAIN r.st.pending : r.st.pending[i].table = "audit"

\* ABC is registered and holds stock; registering abc again is refused as a
\* duplicate, and registering the two-letter code ab is refused as invalid
C22_Witness ==
    /\ ABC \in DOMAIN balances
    /\ balances[ABC].quantity > 0
    /\ Register(abc, DefaultCapacity).kind = "exists"
    /\ Register(<<"a", "b">>, DefaultCapacity).kind = "error"

\* update_location as a caller of the service can invoke it: the dictionary
\* may name any attribute of the Location (lines 130-132), the cache included
ServiceUpdateData == UpdateData \cup { [current_stock |-> 1] }

CacheConsistent(db) ==
    \A code \in DOMAIN db.locations \cap DOMAIN db.balances :
        db.locations[code].current_stock = db.balances[code].quantity

\* C23: in every committed state the service's operations reach, and in the
\* committed state any update_location call leaves, each Location's
\* current_stock equals the quantity of its Balance row.
C23_CacheConsistency ==
    /\ CacheConsistent(Committed)
    /\ \A code \in CallCodes, data \in ServiceUpdateData :
           CacheConsistent(update_location(Now, code, data).st.db)

\* the part of C23 that the operations as the application drives them keep
C23_CacheOfReachable == CacheConsistent(Committed)

\* C24: in every step, every committed movement row stays where it is with
\* its id, codes and quantity, and every committed audit row stays as it
\* is: the two tables only grow.
C24_AppendOnly ==
    [][ /\ Len(movements') >= Len(movements)
        /\ \A i \in DOMAIN movements : movements'[i] = movements[i]
        /\ audit_logs \sqsubseteq audit_logs' ]_vars

\* a movement and its audit row are committed, and so is the CREATE audit
\* row of XYZ, a location that has since been deleted
C24_Witness ==
    /\ Len(movements) >= 1
    /\ XYZ \notin DOMAIN locations
    /\ \E a \in BagToSet(audit_logs) : a.action = "CREATE" /\ a.record_id = XYZ
    /\ \E a \in BagToSet(audit_logs) : a.action = "MOVEMENT"

\* C25: in every state the operations reach from the empty store, the
\* quantities of all balances, SYSTEM's included, sum to 0: the SYSTEM
\* balance is the negative of the sum of the others (0 while SYSTEM has no
\* balance row).
C25_ZeroSum ==
    /\ SumQuantity(balances, DOMAIN balances) = 0
    /\ QuantityAt(balances, SYSTEM) = 0 - NonSystemSum(balances)

\* SYSTEM has given out two pallets, one now at ABC and one at XYZ
C25_Witness ==
    /\ {SYSTEM, ABC, XYZ} \subseteq DOMAIN balances
    /\ balances[SYSTEM].quantity = 0 - 2
    /\ balances[ABC].quantity = 1
    /\ balances[XYZ].quantity = 1

\* C26: in every committed state the locations with a Balance row are the
\* locations with a Location row, and each location has one Balance row,
\* the row that bears its code.
C26_Pairing ==
    /\ DOMAIN balances = DOMAIN locations
    /\ \A code \in DOMAIN balances :
           /\ balances[code].location_code = code
           /\ locations[code].code = code

\* a registered location and the auto-provisioned SYSTEM, each with its
\* balance row, after a registered location was deleted with its row
C26_Witness ==
    /\ DOMAIN locations = {ABC, SYSTEM}
    /\ DOMAIN balances = {ABC, SYSTEM}
    /\ \E a \in BagToSet(audit_logs) : a.action = "CREATE" /\ a.record_id = XYZ

\* C27: in every reachable state the from and to codes of every stored
\* movement each name a Location row that exists, whatever registrations,
\* movements and deletions came before.
C27_MovementReferences ==
    \A i \in DOMAIN movements :
        /\ movements[i].from_location_code \in DOMAIN locations
        /\ movements[i].to_location_code \in DOMAIN locations

\* a movement from SYSTEM to ABC is stored, the deletion of ABC is refused,
\* and XYZ, which had no movement, has been registered and deleted
C27_Witness ==
    /\ \E i \in DOMAIN movements :
           /\ movements[i].from_location_code = SYSTEM
           /\ movements[i].to_location_code = ABC
    /\ delete_location(Now, ABC).kind = "has_history"
    /\ XYZ \notin DOMAIN locations
    /\ \E a \in BagToSet(audit_logs) : a.action = "CREATE" /\ a.record_id = XYZ

\* a call names the SYSTEM account
NamesSystem(from, to) == SYSTEM \in {Upper(from), Upper(to)}

\* the validations that come before the auto-fix have passed
ReachesAutoFix(r) == r.kind \notin {"empty", "same", "quantity"}

\* what a call adds to the SYSTEM quantity: its quantity when it succeeds
SystemDelta(r, from, to, quantity) ==
    IF ~r.ok THEN 0
    ELSE IF Upper(to) = SYSTEM THEN quantity ELSE 0 - quantity

\* there is a SYSTEM location exactly when there is a SYSTEM balance row
SystemPaired(db) == (SYSTEM \in DOMAIN db.locations) <=> (SYSTEM \in DOMAIN db.balances)

\* a call that names SYSTEM and reaches the auto-fix leaves the one SYSTEM
\* location and the one SYSTEM balance row; rows that existed keep what they
\* held, but for the quantity the call's own movement moves
ProvisionIdempotent ==
    \A from \in CallCodes, to \in CallCodes, quantity \in Quantities :
        \A r \in {Call(from, to, quantity, "none")} :
            (NamesSystem(from, to) /\ ReachesAutoFix(r)) =>
                /\ SYSTEM \in DOMAIN r.st.db.locations
                /\ SYSTEM \in DOMAIN r.st.db.balances
                /\ r.st.db.balances[SYSTEM].quantity
                       = QuantityAt(balances, SYSTEM)
                           + SystemDelta(r, from, to, quantity)
                /\ SYSTEM \in DOMAIN locations =>
                       r.st.db.locations[SYSTEM].max_capacity
                           = locations[SYSTEM].max_capacity

\* a step that stores no movement leaves the SYSTEM rows as they are
SystemKept ==
    SYSTEM \in DOMAIN balances =>
        /\ SYSTEM \in DOMAIN balances'
        /\ SYSTEM \in DOMAIN locations'
        /\ movements' = movements =>
               /\ balances'[SYSTEM] = balances[SYSTEM]
               /\ locations'[SYSTEM] = locations[SYSTEM]

\* C28: the auto-provisioning of SYSTEM is idempotent.  In every state, of
\* sequential and of concurrently running record_movement calls, there is
\* one SYSTEM location exactly when there is one SYSTEM balance row, a call
\* naming SYSTEM that reaches the auto-fix leaves both, and no provisioning,
\* a repeated or a concurrent one included, resets the SYSTEM balance.
C28_SingleSystem ==
    /\ [](SystemPaired(Committed) /\ ProvisionIdempotent)
    /\ [][SystemKept]_vars

\* a call found no SYSTEM location; by the time it commits its own, SYSTEM
\* has been provisioned by another call and has given out stock: its commit
\* fails and the SYSTEM balance is still below zero
C28_Witness ==
    \E s \in Sessions :
        /\ calls[s].pc = "provisioned"
        /\ ~calls[s].created
        /\ SYSTEM \in DOMAIN balances
        /\ balances[SYSTEM].quantity < 0

\* The rows of the table report_movements that bear a report, each the id
\* of a movement.  ingest_excel_file passes no report to create_movement
\* (lines 374-381) and no statement of the service inserts a ReportMovement, so
\* the table is as create_all made it: empty.
report_movements(db, hash) == {}

\* the ids of the movements committed by a run: those the tables after the
\* run hold beyond the ones there were
MovementsOfRun(r) ==
    { r.st.db.movements[i].id :
          i \in DOMAIN r.st.db.movements \ DOMAIN movements }

\* C29: when an ingest has finalized and committed its report, the
\* movements linked to the report through report_movements are the
\* movements that the run's successful rows created.
C29_ReportLink ==
    \A file \in Files :
        \A f \in IngestFaults(file) :
            \A r \in {IngestCall(file, f)} :
                r.kind = "report" =>
                    report_movements(r.st.db, file_hash(file)) = MovementsOfRun(r)

\* the codes of the calls of C30: a code in both cases, another code, the
\* SYSTEM account and a code that no location can bear
OrderCodes == { abc, ABC, XYZ, SYSTEM, <<"a", "b">> }

\* the code names a location with a balance row, or SYSTEM, which the call
\* provisions
Known(code) == Upper(code) \in DOMAIN balances \/ Upper(code) = SYSTEM

\* C30: the validations of record_movement are made in a fixed order and the
\* first that fails is the one reported.  For two codes that are given: the
\* same location is reported whatever the quantity and whether or not the
\* location exists; a non-positive quantity is reported whether or not the
\* locations exist; an unknown destination is reported whether or not the
\* source is known and has the stock; an unknown source is reported only
\* for a known destination; insufficient stock is reported only when source
\* and destination both resolve.
C30_ValidationOrder ==
    \A from \in OrderCodes, to \in OrderCodes, quantity \in Quantities :
        \A r \in {Call(from, to, quantity, "none")} :
            /\ Upper(from) = Upper(to) => r.kind = "same"
            /\ (Upper(from) # Upper(to) /\ quantity <= 0) => r.kind = "quantity"
            /\ (Upper(from) # Upper(to) /\ quantity > 0 /\ ~Known(to))
                   => r.kind = "no_destination"
            /\ (Upper(from) # Upper(to) /\ quantity > 0 /\ Known(to) /\ ~Known(from))
                   => r.kind = "no_source"
            /\ r.kind = "insufficient" => (Known(from) /\ Known(to))
            /\ r.kind \in {"same", "quantity", "no_destination", "no_source",
                            "insufficient"} => ~r.ok

\* ABC holds one pallet and XYZ is not registered: a movement from ABC to
\* itself of quantity 0 is refused for the same location, one of quantity 0
\* out of the unknown XYZ for the quantity, one of 2 from ABC to XYZ and one
\* between two unknown locations for the destination
C30_Witness ==
    /\ ABC \in DOMAIN balances
    /\ balances[ABC].quantity = 1
    /\ XYZ \notin DOMAIN balances
    /\ Call(abc, ABC, 0, "none").kind = "same"
    /\ Call(XYZ, ABC, 0, "none").kind = "quantity"
    /\ Call(ABC, XYZ, 2, "none").kind = "no_destination"
    /\ Call(<<"a", "b">>, XYZ, 1, "none").kind = "no_destination"
    /\ Call(XYZ, ABC, 1, "none").kind = "no_source"
    /\ Call(ABC, SYSTEM, 2, "none").kind = "insufficient"

\* the rows are taken once each and in the order of the source: after idx
\* rows the counters of successes and failures add up to idx, and the
\* errors name the failed rows in increasing order
RowsInOrder(run) ==
    /\ run.idx \in 0 .. Len(run.file.rows)
    /\ run.results.total = Len(run.file.rows)
    /\ run.results.success + run.results.failed = run.idx
    /\ Len(run.results.errors) = run.results.failed
    /\ \A i \in DOMAIN run.results.errors :
           /\ run.results.errors[i].row - HeaderOffset \in 0 .. run.idx - 1
           /\ i > 1 => run.results.errors[i - 1].row < run.results.errors[i].row

\* a finalized run has counted every row and its report is no longer
\* PROCESSING
RunFinalized(run) ==
    /\ run.pc = "finalized"
    /\ run.results.success + run.results.failed = Len(run.file.rows)
    /\ run.report.status \in {"COMPLETED", "COMPLETED_WITH_ERRORS"}
    /\ run.report.completed
    /\ run.report.total_movements = Len(run.file.rows)

\* a step of a run in its rows takes the next row, or finalizes
NextRowOrFinal(s) ==
    (InRows(s) /\ calls'[s] # calls[s]) =>
        \/ InRows(s)' /\ calls'[s].idx = calls[s].idx + 1
                      /\ calls'[s].file = calls[s].file
        \/ calls[s].idx = Len(calls[s].file.rows) /\ RunFinalized(calls'[s])

\* C31: once the source is read and the report created, the rows are
\* processed once each in source order, no failure of a row ends the run,
\* and the run reaches its finalization, where the status is no longer
\* PROCESSING, whatever the rows are.
C31_IngestFinalizes ==
    /\ [](\A s \in Sessions : InRows(s) => RowsInOrder(calls[s]))
    /\ [][\A s \in Sessions : NextRowOrFinal(s)]_vars
    /\ \A s \in Sessions : InRows(s) ~> RunFinalized(calls[s])

\* a run of the three-row sheet is finalized with the second row failed and
\* another row succeeded
C31_Witness ==
    \E s \in Sessions :
        /\ calls[s].pc = "finalized"
        /\ calls[s].file = ThreeRows
        /\ calls[s].results.failed >= 1
        /\ calls[s].results.success >= 1
        /\ calls[s].report.status = "COMPLETED_WITH_ERRORS"

\* C32: in every committed state every balance row, touched by a movement
\* or not, has quantity_available = max(0, quantity - quantity_allocated);
\* a SYSTEM balance below zero has quantity_available 0.
C32_DerivedAvailability ==
    \A code \in DOMAIN balances :
        /\ balances[code].quantity_available
               = Max(0, balances[code].quantity - balances[code].quantity_allocated)
        /\ balances[code].quantity < 0 => balances[code].quantity_available = 0

\* SYSTEM has given out two pallets and has none available; ABC holds them
\* and has two available
C32_Witness ==
    /\ {SYSTEM, ABC} \subseteq DOMAIN balances
    /\ balances[SYSTEM].quantity = 0 - 2
    /\ balances[SYSTEM].quantity_available = 0
    /\ balances[ABC].quantity = 2
    /\ balances[ABC].quantity_available = 2

\* C33: in every state the sequential operations reach from the empty
\* store, the quantity of each balance is the sum of the quantities of the
\* movements into its location less the sum of those out of it.
C33_LedgerDerived ==
    \A code \in DOMAIN balances :
        balances[code].quantity = LedgerQuantity(movements, code)

\* two movements are stored, SYSTEM to ABC and ABC to XYZ, and ABC holds
\* what came in less what went out
C33_Witness ==
    /\ Len(movements) = 2
    /\ Triple(movements[1]) = <<SYSTEM, ABC, 2>>
    /\ Triple(movements[2]) = <<ABC, XYZ, 1>>
    /\ balances[ABC].quantity = 1
    /\ balances[XYZ].quantity = 1

\* two concurrent calls out of the same source into two different
\* destinations, none of the three being SYSTEM, that loaded the same source
\* quantity and have both committed
RacedApart(s1, s2) ==
    /\ s1 # s2
    /\ calls[s1].pc = "committed" /\ calls[s2].pc = "committed"
    /\ Upper(calls[s1].from) = Upper(calls[s2].from)
    /\ Upper(calls[s1].to) # Upper(calls[s2].to)
    /\ SYSTEM \notin {Upper(calls[s1].from), Upper(calls[s1].to), Upper(calls[s2].to)}
    /\ calls[s1].source_balance.quantity = calls[s2].source_balance.quantity

\* what the three balances of the two calls hold more than what the calls
\* loaded
Gained(s1, s2) ==
    balances[Upper(calls[s1].from)].quantity
      + balances[Upper(calls[s1].to)].quantity
      + balances[Upper(calls[s2].to)].quantity
      - calls[s1].source_balance.quantity
      - calls[s1].dest_balance.quantity
      - calls[s2].dest_balance.quantity

\* C34: two record_movement calls from the same source to two different
\* destinations, SYSTEM not among them, that both read the source balance
\* before either commits, both commit; the destinations are credited both
\* quantities and the source is debited only one, so the non-SYSTEM balances
\* sum to more than before by the other call's quantity, and all balances
\* no longer sum to zero.
C34_LostUpdate ==
    \A s1 \in Sessions, s2 \in Sessions :
        RacedApart(s1, s2) =>
            /\ \A s \in {s1, s2} :
                   /\ calls[s].movement_id \in DOMAIN movements
                   /\ movements[calls[s].movement_id].quantity = calls[s].quantity
                   /\ balances[Upper(calls[s].to)].quantity
                          = calls[s].dest_balance.quantity + calls[s].quantity
            /\ Gained(s1, s2) \in {calls[s1].quantity, calls[s2].quantity}
            /\ Gained(s1, s2) > 0
            /\ NonSystemSum(balances) + QuantityAt(balances, SYSTEM) = Gained(s1, s2)

\* both calls have committed, one to XYZ and one to QRS, and the balances
\* other than SYSTEM hold more than SYSTEM has given out
C34_Witness ==
    \E s1 \in Sessions, s2 \in Sessions :
        /\ RacedApart(s1, s2)
        /\ Upper(calls[s1].to) = XYZ /\ Upper(calls[s2].to) = QRS
        /\ NonSystemSum(balances) > 0 - balances[SYSTEM].quantity

\* lines 394-400 have been applied to the report
IsFinalized(report) ==
    /\ report.status \in {"COMPLETED", "COMPLETED_WITH_ERRORS"}
    /\ report.completed

\* C35: no report with status PROCESSING or without completed_at is ever
\* committed, so that the report the guard of lines 331-333 returns for a
\* content ingested before is always a finalized one, also after a run that
\* was interrupted when rows had been processed.
C35_CommittedReportsFinalized ==
    /\ \A hash \in DOMAIN reports : IsFinalized(reports[hash])
    /\ \A file \in Files :
           \A r \in {IngestCall(file, <<0, "none">>)} :
               r.kind = "existing" => IsFinalized(r.report[1])

\* the run of s has inserted a report of its content and gone into the rows
Ran(s) == calls[s].pc \in {"rows", "finalized"}

\* the calls of s1 and s2 are of the same content and both past the guard
\* of lines 331-333, which found no report
SameContent(s1, s2) ==
    /\ s1 # s2
    /\ calls[s1].pc \in {"guarded", "rows", "finalized", "raised"}
    /\ calls[s2].pc \in {"guarded", "rows", "finalized", "raised"}
    /\ calls[s1].file.readable /\ calls[s2].file.readable
    /\ file_hash(calls[s1].file) = file_hash(calls[s2].file)

\* C36: of two concurrent ingests of the same content that both passed the
\* guard, at most one inserts a report and processes the rows; the other
\* raises at its INSERT and creates no Movement, so the rows are applied
\* once and the one report of the hash is that of the run that applied them.
C36_ConcurrentDuplicate ==
    \A s1 \in Sessions, s2 \in Sessions :
        SameContent(s1, s2) =>
            /\ ~(Ran(s1) /\ Ran(s2))
            /\ calls[s1].pc = "finalized" =>
                  /\ calls[s2].pc \in {"guarded", "raised"}
                  /\ file_hash(calls[s1].file) \in DOMAIN reports
                  /\ reports[file_hash(calls[s1].file)] = calls[s1].report
                  /\ calls[s1].report.successful_movements
                         = calls[s1].results.success
                  /\ calls[s1].results.success <= Len(movements)

\* two ingests of the same two-row content passed the guard together; one
\* has applied a row and finalized, the other was refused at its INSERT
C36_Witness ==
    \E s1 \in Sessions, s2 \in Sessions :
        /\ SameContent(s1, s2)
        /\ calls[s1].pc = "finalized" /\ calls[s2].pc = "raised"
        /\ calls[s1].results.success = 1
        /\ Len(calls[s1].file.rows) = 2

\* the audit rows hold a CREATE row of the location of the code
HasCreateRow(logs, code) ==
    \E row \in BagToSet(logs) :
        /\ row.action = "CREATE"
        /\ Upper(row.record_id) = code

\* C37: when create_location returns success, a CREATE audit row of the
\* location is committed, and every location registered by create_location
\* has that row in the committed tables after any later operation, failed
\* and rolled back ones included.
C37_RegistrationAudited ==
    /\ \A code \in RegisterCodes, cap \in Capacities :
           \A r \in {Register(code, cap)} :
               r.ok => HasCreateRow(r.st.db.audit_logs, Upper(code))
    /\ \A code \in DOMAIN locations \ {SYSTEM} : HasCreateRow(audit_logs, code)

\* C38: whatever code delete_location is given, when it succeeds every
\* balance row it has removed had quantity 0, the rows it has left are what
\* they were, and the quantities of all balances sum to what they did.
C38_OnlyEmptyDeleted ==
    \A code \in DeleteCodes \cup DOMAIN locations :
        \A r \in {delete_location(Now, code)} :
            r.ok =>
                /\ DOMAIN r.st.db.balances \subseteq DOMAIN balances
                /\ \A gone \in DOMAIN balances \ DOMAIN r.st.db.balances :
                       balances[gone].quantity = 0
                /\ \A kept \in DOMAIN r.st.db.balances :
                       r.st.db.balances[kept] = balances[kept]
                /\ SumQuantity(r.st.db.balances, DOMAIN r.st.db.balances)
                       = SumQuantity(balances, DOMAIN balances)

\* ABC holds two pallets and its deletion is refused; XYZ is registered,
\* has no movement and holds none, and its deletion succeeds and removes
\* its balance row
C38_Witness ==
    /\ {ABC, XYZ} \subseteq DOMAIN balances
    /\ balances[ABC].quantity = 2
    /\ ~delete_location(Now, ABC).ok
    /\ balances[XYZ].quantity = 0
    /\ delete_location(Now, XYZ).ok
    /\ XYZ \notin DOMAIN delete_location(Now, XYZ).st.db.balances

\* the spellings of codes given to the operations: lower case and as stored
Spellings == { abc, ABC, XYZ }

\* C39: every operation acts on the upper-cased code: get_location_balance,
\* update_location and record_movement find the location of any spelling of
\* its code, and delete_location given any spelling of the code of a
\* registered location refuses when a movement bears the code and removes
\* the location and its balance when none does.
C39_CaseInsensitive ==
    \A code \in Spellings :
        Upper(code) \in DOMAIN locations =>
            /\ HasBalance(Now, code)
            /\ get_location_balance(Now, code).location_code = Upper(code)
            /\ \A data \in UpdateData : update_location(Now, code, data).ok
            /\ Call(SYSTEM, code, 1, "none").ok
            /\ \A r \in {delete_location(Now, code)} :
                   IF HistoryCount(Now, Upper(code)) > 0
                   THEN ~r.ok /\ Untouched(r)
                   ELSE /\ r.ok
                        /\ Upper(code) \notin DOMAIN r.st.db.locations
                        /\ Upper(code) \notin DOMAIN r.st.db.balances

\* the location rows with the max_capacity of the rows of codes set to cap
SetCapacity(locs, codes, cap) ==
    [c \in DOMAIN locs |->
        IF c \in codes THEN [locs[c] EXCEPT !.max_capacity = cap] ELSE locs[c]]

\* the session over a database that differs in those max_capacity values only
WithCapacity(st, codes, cap) ==
    [st EXCEPT !.locations = SetCapacity(@, codes, cap),
               !.db.locations = SetCapacity(@, codes, cap)]

\* the max_capacity values the rows are given in the comparison
OtherCapacities == { 0, 1, DefaultCapacity }

\* C40: record_movement called in two states that differ only in the
\* max_capacity of the source, of the destination or of both returns the
\* same result and leaves the same balances, movements and audit rows, and
\* the same locations but for those max_capacity values; no capacity is
\* enforced.
C40_NoCapacityEnforcement ==
    \A from \in MovementCodes, to \in MovementCodes, quantity \in Quantities :
        \A r \in {Call(from, to, quantity, "none")} :
            \A codes \in SUBSET ({Upper(from), Upper(to)} \cap DOMAIN locations),
               cap \in OtherCapacities :
                \A other \in {record_movement(WithCapacity(Now, codes, cap),
                                               from, to, quantity, "none")} :
                    /\ other.ok = r.ok
                    /\ other.kind = r.kind
                    /\ other.st.db.balances = r.st.db.balances
                    /\ other.st.db.movements = r.st.db.movements
                    /\ other.st.db.audit_logs = r.st.db.audit_logs
                    /\ other.st.db.locations
                          = SetCapacity(r.st.db.locations, codes, cap)

\* XYZ was registered with max_capacity 1 and holds two pallets after two
\* successful movements into it, and a further movement into it succeeds
C40_Witness ==
    /\ XYZ \in DOMAIN locations /\ XYZ \in DOMAIN balances
    /\ locations[XYZ].max_capacity = 1
    /\ balances[XYZ].quantity = 2
    /\ Len(movements) = 2
    /\ \A i \in DOMAIN movements : movements[i].to_location_code = XYZ
    /\ Call(SYSTEM, XYZ, 1, "none").ok

====
